---- MODULE Spec2Model ----
(***************************************************************************)
(* Model of picca's Dr16ExpectedFlux (delta_extraction/expected_fluxes/     *)
(* dr16_expected_flux.py): the iteration loop of compute_expected_flux and  *)
(* the steps it drives (compute_continuum, compute_mean_cont,               *)
(* compute_var_stats, compute_delta_stack, save_iteration_step,             *)
(* populate_los_ids).                                                       *)
(*                                                                         *)
(* Floating point numbers are modelled as exact extended rationals          *)
(* <<n, d>>: d > 0 is the reduced fraction n/d, <<1,0>> and <<-1,0>> are    *)
(* +inf and -inf, <<0,0>> is NaN, with numpy's rules for them (rounding is  *)
(* not modelled).  Wavelength coordinates are integers: the bins of         *)
(* Forest.log_lambda_grid and Forest.log_lambda_rest_frame_grid are Step    *)
(* apart, and log10(1 + z) of a forest is a whole number of bins.           *)
(***************************************************************************)
EXTENDS Integers, Sequences, FiniteSets, TLC

\* ------------------------------------------------------------------ bounds
\* number of forests in the list handed to compute_expected_flux
NumForests == 2
\* largest configured "num iterations"
MaxIter == 2
\* largest configured "num processors"
MaxProc == 2
\* bins of Forest.log_lambda_grid (observed frame)
NObs == 4
\* bins of Forest.log_lambda_rest_frame_grid
NRest == 2
\* configured "num bins variance"
NumBinsVariance == 2

\* ------------------------------------------------------- float arithmetic
Abs(n) == IF n < 0 THEN -n ELSE n

Sign(n) == IF n > 0 THEN 1 ELSE IF n < 0 THEN -1 ELSE 0

RECURSIVE Gcd(_, _)
Gcd(a, b) == IF b = 0 THEN a ELSE Gcd(b, a % b)

\* the float n/d (d = 0: +inf, -inf or NaN by the sign of n)
Frac(n, d) ==
    IF d = 0 THEN <<Sign(n), 0>>
    ELSE LET g == Gcd(Abs(n), Abs(d))
         IN  <<Sign(d) * (n \div g), Abs(d) \div g>>

Num(k) == <<k, 1>>

NaN == <<0, 0>>

Inf == <<1, 0>>

IsNaN(a) == a = NaN

IsFinite(a) == a[2] > 0

FAdd(a, b) ==
    IF a[2] = 0 /\ b[2] = 0 THEN (IF a = b THEN a ELSE NaN)
    ELSE IF a[2] = 0 THEN a
    ELSE IF b[2] = 0 THEN b
    ELSE LET g == Gcd(a[2], b[2])
         IN  Frac(a[1] * (b[2] \div g) + b[1] * (a[2] \div g),
                  (a[2] \div g) * b[2])

FNeg(a) == <<-a[1], a[2]>>

FSub(a, b) == FAdd(a, FNeg(b))

FMul(a, b) ==
    IF a[2] = 0 \/ b[2] = 0 THEN Frac(a[1] * b[1], 0)
    ELSE LET g == Gcd(Abs(a[1]), b[2])
             h == Gcd(Abs(b[1]), a[2])
         IN  Frac((a[1] \div g) * (b[1] \div h), (a[2] \div h) * (b[2] \div g))

\* 1 / a, with 1 / 0 = inf and 1 / inf = 0
FInv(a) == IF a[2] = 0 THEN Frac(0, Abs(a[1])) ELSE Frac(a[2], a[1])

FDiv(a, b) == FMul(a, FInv(b))

\* comparisons are False on NaN
FGt0(a) == a[1] > 0

FLt0(a) == a[1] < 0

FEq(a, b) == ~IsNaN(a) /\ a = b

\* element-wise operations on arrays (sequences of floats)
Range(s) == {s[i] : i \in DOMAIN s}

VMul(u, v) == [i \in DOMAIN u |-> FMul(u[i], v[i])]

VDiv(u, v) == [i \in DOMAIN u |-> FDiv(u[i], v[i])]

RECURSIVE FSum(_)
FSum(s) == IF s = <<>> THEN Num(0) ELSE FAdd(FSum(Tail(s)), Head(s))

\* numpy's array.mean()
Mean(s) == FDiv(FSum(s), Num(Len(s)))

\* array[mask]: the elements at the indices of the set w, in order
RECURSIVE Where(_, _, _)
Where(s, w, i) ==
    IF i > Len(s) THEN <<>>
    ELSE (IF i \in w THEN <<s[i]>> ELSE <<>>) \o Where(s, w, i + 1)

Masked(s, w) == Where(s, w, 1)

\* ------------------------------------------------ scipy.interpolate.interp1d
\* An interpolant: knots x (ascending coordinates), values y, kind "linear" or
\* "nearest", fill "extrapolate" or "zero" (fill_value=0.0, bounds_error=False).
interp1d(x, y, kind, fill) == [x |-> x, y |-> y, kind |-> kind, fill |-> fill]

\* interp1d raises ValueError when handed no knot at all
Interp1dRaises(x) == Len(x) < 1

\* an attribute still set to None
NoInterp == [x |-> <<>>, y |-> <<>>, kind |-> "None", fill |-> "None"]

\* numpy.searchsorted(xs, v, side='left'): the number of entries below v
SearchSorted2(xs2, v2) == Cardinality({i \in DOMAIN xs2 : xs2[i] < v2})

Clip(v, lo, hi) == IF hi < lo THEN hi ELSE IF v < lo THEN lo ELSE IF v > hi THEN hi ELSE v

\* interp1d._call_linear: the segment is chosen by searchsorted, clipped to the
\* outer segments; a single knot gives the slope 0/0
CallLinear(f, xn) ==
    LET n  == Len(f.x)
        hi == Clip(SearchSorted2(f.x, xn), 1, n - 1) + 1
        lo == IF hi = 1 THEN n ELSE hi - 1
        slope == FDiv(FSub(f.y[hi], f.y[lo]), Num(f.x[hi] - f.x[lo]))
    IN  FAdd(FMul(slope, Num(xn - f.x[lo])), f.y[lo])

\* numpy.interp inside the knots' range (interp1d._call_linear_np)
CallLinearNp(f, xn) ==
    LET n == Len(f.x)
    IN  IF \E i \in 1..n : f.x[i] = xn
        THEN f.y[CHOOSE i \in 1..n : f.x[i] = xn]
        ELSE CallLinear(f, xn)

\* variant: a coordinate half way between two knots goes to the upper one
CallNearestHalfUp(f, xn) ==
    LET n   == Len(f.x)
        bds == [i \in 1..(n - 1) |-> f.x[i] + f.x[i + 1]]
    IN  f.y[Clip(Cardinality({i \in DOMAIN bds : bds[i] <= 2 * xn}), 0, n - 1) + 1]

\* interp1d._call_nearest: searchsorted over the midpoints of the knots
CallNearest(f, xn) ==
    LET n   == Len(f.x)
        bds == [i \in 1..(n - 1) |-> f.x[i] + f.x[i + 1]]
    IN  f.y[Clip(SearchSorted2(bds, 2 * xn), 0, n - 1) + 1]

\* evaluation of an interpolant at the coordinate xn
Call(f, xn) ==
    IF f.fill = "zero" /\ (xn < f.x[1] \/ xn > f.x[Len(f.x)]) THEN Num(0)
    ELSE IF f.kind = "nearest" THEN CallNearest(f, xn)
    ELSE IF f.fill = "zero" THEN CallLinearNp(f, xn)
    ELSE CallLinear(f, xn)

\* evaluation at an array of coordinates
CallAll(f, xs) == [i \in DOMAIN xs |-> Call(f, xs[i])]

\* ------------------------------------------------------------------ grids
\* distance between two bins, in coordinate units (keeps the variance grid whole)
Step == 2 * NumBinsVariance

\* Forest.log_lambda_grid
log_lambda_grid == [i \in 1..NObs |-> (i - 1) * Step]

\* Forest.log_lambda_rest_frame_grid
log_lambda_rest_frame_grid == [i \in 1..NRest |-> (i - 1) * Step]

\* self.log_lambda_var_func_grid: the centres of num_bins_variance equal parts
\* of the observed grid, grid[0] + (j + .5) * (grid[-1] - grid[0]) / num_bins
log_lambda_var_func_grid ==
    [j \in 1..NumBinsVariance |->
        log_lambda_grid[1]
        + ((2 * (j - 1) + 1) * (log_lambda_grid[NObs] - log_lambda_grid[1]))
          \div (2 * NumBinsVariance)]

\* utils.find_bins: index (from 1) of the bin of grid nearest to each coordinate
find_bins(log_lambda, grid) ==
    [i \in DOMAIN log_lambda |->
        ((2 * (log_lambda[i] - grid[1]) + Step) \div (2 * Step)) + 1]

\* numpy.bincount(bins, weights) added into an array of nbins zeros
Bincount(bins, weights, nbins) ==
    [b \in 1..nbins |-> FSum(Masked(weights, {i \in DOMAIN bins : bins[i] = b}))]

VAdd(u, v) == [i \in DOMAIN u |-> FAdd(u[i], v[i])]

Zeros(n) == [i \in 1..n |-> Num(0)]

Ones(n) == [i \in 1..n |-> Num(1)]

\* a Python dict: a function from its keys; {} is the empty one
EmptyDict == <<>>

\* d[k] = v
DictSet(d, k, v) == [x \in (DOMAIN d) \cup {k} |-> IF x = k THEN v ELSE d[x]]

\* ---------------------------------------------------------------- forests
\* forest.continuum = None
None == <<>>

\* forest.bad_continuum_reason = None
NoReason == "None"

\* log10(1 + forest.z)
Log10OnePlusZ(forest) == forest.z * Step

\* forest.log_lambda - np.log10(1 + forest.z)
RestFrame(forest) ==
    [i \in DOMAIN forest.log_lambda |-> forest.log_lambda[i] - Log10OnePlusZ(forest)]

\* ---------------------------------------------------- Dr16ExpectedFlux steps
\* compute_forest_variance: eta * var_pipe + var_lss + fudge / var_pipe
compute_forest_variance(self, forest, continuum) ==
    [i \in DOMAIN forest.flux |->
        LET var_pipe == FDiv(FInv(forest.ivar[i]), FMul(continuum[i], continuum[i]))
            var_lss  == Call(self.get_var_lss, forest.log_lambda[i])
            eta      == Call(self.get_eta, forest.log_lambda[i])
            fudge    == Call(self.get_fudge, forest.log_lambda[i])
        IN  FAdd(FAdd(FMul(eta, var_pipe), var_lss), FDiv(fudge, var_pipe))]

\* get_continuum_model: (slope * (x - x_min) / (x_max - x_min) + zero_point) * mean_cont
get_continuum_model(forest, zero_point, slope, mean_cont, log_lambda_max, log_lambda_min) ==
    [i \in DOMAIN forest.log_lambda |->
        LET line == FAdd(FDiv(FMul(slope, Num(forest.log_lambda[i] - log_lambda_min)),
                              Num(log_lambda_max - log_lambda_min)),
                         zero_point)
        IN  FMul(line, mean_cont[i])]

\* the mean continuum at the forest's pixels, times the transmission correction
ForestMeanCont(self, forest) ==
    VMul(CallAll(self.get_mean_cont, RestFrame(forest)), forest.transmission_correction)

\* the model compute_continuum builds from the minimizer's values
TempContModel(self, forest, minimizer) ==
    get_continuum_model(forest, minimizer.zero_point, minimizer.slope,
                        ForestMeanCont(self, forest),
                        log_lambda_rest_frame_grid[NRest] + Log10OnePlusZ(forest),
                        log_lambda_rest_frame_grid[1] + Log10OnePlusZ(forest))

\* variant: the test on minimizer.valid is left out
BadContinuumReasonIgnoringValid(minimizer, temp_cont_model) ==
    IF \E i \in DOMAIN temp_cont_model : FLt0(temp_cont_model[i])
    THEN "negative continuum"
    ELSE NoReason

\* variant: the test on the sign of the model is left out
BadContinuumReasonIgnoringSign(minimizer, temp_cont_model) ==
    IF ~minimizer.valid THEN "minuit didn't converge" ELSE NoReason

\* the reason compute_continuum records for a fit
BadContinuumReason(minimizer, temp_cont_model) ==
    IF \E i \in DOMAIN temp_cont_model : FLt0(temp_cont_model[i])
    THEN "negative continuum"
    ELSE IF ~minimizer.valid THEN "minuit didn't converge"
    ELSE NoReason

\* variant: the model is kept and no reason is recorded when the fit failed
ContinuumOutcomeKeepingModel(forest, minimizer, temp_cont_model, reason) ==
    [forest |-> [forest EXCEPT
                    !.bad_continuum_reason = NoReason,
                    !.continuum = temp_cont_model],
     continuum_fit_parameters |->
        DictSet(EmptyDict, forest.los_id,
                IF reason = NoReason
                THEN <<minimizer.zero_point, minimizer.slope>>
                ELSE <<NaN, NaN>>)]

\* variant: the reason of an earlier round is not cleared before the new fit
\* is evaluated
ContinuumOutcomeKeepingReason(forest, minimizer, temp_cont_model, reason) ==
    [forest |-> [forest EXCEPT
                    !.bad_continuum_reason =
                        IF @ # NoReason /\ reason = NoReason THEN @ ELSE reason,
                    !.continuum =
                        IF forest.bad_continuum_reason = NoReason /\ reason = NoReason
                        THEN temp_cont_model ELSE None],
     continuum_fit_parameters |->
        DictSet(EmptyDict, forest.los_id,
                IF forest.bad_continuum_reason = NoReason /\ reason = NoReason
                THEN <<minimizer.zero_point, minimizer.slope>>
                ELSE <<NaN, NaN>>)]

\* the end of compute_continuum: the modified forest and the instance's
\* continuum_fit_parameters, given the model and the reason recorded
ContinuumOutcome(forest, minimizer, temp_cont_model, reason) ==
    [forest |-> [forest EXCEPT
                    !.bad_continuum_reason = reason,
                    !.continuum = IF reason = NoReason THEN temp_cont_model ELSE None],
     continuum_fit_parameters |->
        DictSet(EmptyDict, forest.los_id,
                IF reason = NoReason
                THEN <<minimizer.zero_point, minimizer.slope>>
                ELSE <<NaN, NaN>>)]

\* compute_continuum from the model built on Minuit's values
ContinuumOfModel(forest, minimizer, temp_cont_model) ==
    ContinuumOutcome(forest, minimizer, temp_cont_model,
                     BadContinuumReason(minimizer, temp_cont_model))

\* variant: the product with the transmission correction is stored in the
\* forest's transmission_correction
compute_continuumScalingTheCorrection(self, forest, minimizer) ==
    [ContinuumOfModel(forest, minimizer, TempContModel(self, forest, minimizer))
        EXCEPT !.forest.transmission_correction = ForestMeanCont(self, forest)]

\* compute_continuum on one forest, given what Minuit returned: the modified
\* forest and the instance's continuum_fit_parameters after the call
compute_continuum(self, forest, minimizer) ==
    ContinuumOfModel(forest, minimizer, TempContModel(self, forest, minimizer))

\* the forests compute_mean_cont leaves out
MeanContSkips(forest) == forest.bad_continuum_reason # NoReason

\* the forests compute_delta_stack (stack_from_deltas=False) leaves out
DeltaStackSkips(forest) == forest.continuum = None

\* flux / continuum of a forest
FluxOverContinuum(forest) == VDiv(forest.flux, forest.continuum)

\* 1.0 / array
VInv(v) == [i \in DOMAIN v |-> FInv(v[i])]

\* variant: use_ivar_as_weight takes precedence over use_constant_weight
get_continuum_weightsUnlessIvar(self, forest, cont_model) ==
    IF self.use_constant_weight /\ ~self.use_ivar_as_weight
    THEN Ones(Len(forest.flux))
    ELSE VDiv(VInv(VMul(cont_model, cont_model)),
              compute_forest_variance(self, forest, cont_model))

\* get_continuum_weights: ones with use_constant_weight, else
\* 1.0 / cont_model**2 / variance
get_continuum_weights(self, forest, cont_model) ==
    IF self.use_constant_weight
    THEN Ones(Len(forest.flux))
    ELSE VDiv(VInv(VMul(cont_model, cont_model)),
              compute_forest_variance(self, forest, cont_model))

\* weights = 1 / compute_forest_variance(forest, forest.continuum)
ForestWeights(self, forest) ==
    VInv(compute_forest_variance(self, forest, forest.continuum))

\* a forest's pixels added to the sums of compute_mean_cont
AddToMeanCont(sums, bins, ratio, weights) ==
    [mean_cont |-> VAdd(sums.mean_cont, Bincount(bins, VMul(ratio, weights), NRest)),
     mean_cont_weight |-> VAdd(sums.mean_cont_weight, Bincount(bins, weights, NRest))]

\* the loop of compute_mean_cont: the weighted sums of flux / continuum and the
\* sums of weights, per rest-frame bin, over forests[k..]
RECURSIVE MeanContLoop(_, _, _)
MeanContLoop(self, forests, k) ==
    IF k > Len(forests)
    THEN [mean_cont |-> Zeros(NRest), mean_cont_weight |-> Zeros(NRest)]
    ELSE IF MeanContSkips(forests[k]) THEN MeanContLoop(self, forests, k + 1)
    ELSE AddToMeanCont(MeanContLoop(self, forests, k + 1),
                       find_bins(RestFrame(forests[k]), log_lambda_rest_frame_grid),
                       FluxOverContinuum(forests[k]),
                       ForestWeights(self, forests[k]))

\* variant: no bin is left out
EveryBin(weight) == DOMAIN weight

\* the bins of an accumulator with weight > 0
Populated(weight) == {b \in DOMAIN weight : FGt0(weight[b])}

\* variant: the division by mean_cont.mean() is left out
MeanContNotNormalised(acc) ==
    LET w == Populated(acc.mean_cont_weight)
    IN  [b \in 1..NRest |->
            IF b \in w THEN FDiv(acc.mean_cont[b], acc.mean_cont_weight[b])
            ELSE acc.mean_cont[b]]

\* mean_cont[w] /= mean_cont_weight[w]; mean_cont /= mean_cont.mean()
NormalisedMeanCont(acc) ==
    LET w == Populated(acc.mean_cont_weight)
        ratio == [b \in 1..NRest |->
                    IF b \in w THEN FDiv(acc.mean_cont[b], acc.mean_cont_weight[b])
                    ELSE acc.mean_cont[b]]
        mean == Mean(ratio)
    IN  [b \in 1..NRest |-> FDiv(ratio[b], mean)]

\* the end of compute_mean_cont, from the sums of the loop: the updated
\* instance, or raised when interp1d refuses
MeanContFromSums(self, acc) ==
    LET w == Populated(acc.mean_cont_weight)
        log_lambda_cont == Masked(log_lambda_rest_frame_grid, w)
        new_cont == VMul(CallAll(self.get_mean_cont, log_lambda_cont),
                         Masked(NormalisedMeanCont(acc), w))
    IN  IF Interp1dRaises(log_lambda_cont)
        THEN [raised |-> TRUE, self |-> self, acc |-> acc]
        ELSE [raised |-> FALSE,
              self |-> [self EXCEPT
                  !.get_mean_cont = interp1d(log_lambda_cont, new_cont, "linear", "extrapolate"),
                  !.get_mean_cont_weight =
                      interp1d(log_lambda_cont, Masked(acc.mean_cont_weight, w), "linear", "zero")],
              acc |-> acc]

\* compute_mean_cont
compute_mean_cont(self, forests) == MeanContFromSums(self, MeanContLoop(self, forests, 1))

\* a forest's pixels added to the sums of compute_delta_stack
AddToDeltaStack(sums, bins, delta, weights) ==
    [stack_delta |-> VAdd(sums.stack_delta, Bincount(bins, VMul(delta, weights), NObs)),
     stack_weight |-> VAdd(sums.stack_weight, Bincount(bins, weights, NObs))]

\* the loop of compute_delta_stack with stack_from_deltas=False
RECURSIVE DeltaStackLoop(_, _, _)
DeltaStackLoop(self, forests, k) ==
    IF k > Len(forests)
    THEN [stack_delta |-> Zeros(NObs), stack_weight |-> Zeros(NObs)]
    ELSE IF DeltaStackSkips(forests[k]) THEN DeltaStackLoop(self, forests, k + 1)
    ELSE AddToDeltaStack(DeltaStackLoop(self, forests, k + 1),
                         find_bins(forests[k].log_lambda, log_lambda_grid),
                         FluxOverContinuum(forests[k]),
                         ForestWeights(self, forests[k]))

\* the end of compute_delta_stack, from the sums of the loop: the updated
\* instance, or raised when interp1d refuses
DeltaStackFromSums(self, acc) ==
    LET w == Populated(acc.stack_weight)
        stack_delta == [b \in 1..NObs |->
                          IF b \in w THEN FDiv(acc.stack_delta[b], acc.stack_weight[b])
                          ELSE acc.stack_delta[b]]
        knots == Masked(log_lambda_grid, w)
    IN  IF Interp1dRaises(knots)
        THEN [raised |-> TRUE, self |-> self, acc |-> acc]
        ELSE [raised |-> FALSE,
              self |-> [self EXCEPT
                  !.get_stack_delta =
                      interp1d(knots, Masked(stack_delta, w), "nearest", "extrapolate"),
                  !.get_stack_delta_weights =
                      interp1d(knots, Masked(acc.stack_weight, w), "nearest", "zero")],
              acc |-> acc]

\* compute_delta_stack
compute_delta_stack(self, forests) ==
    DeltaStackFromSums(self, DeltaStackLoop(self, forests, 1))

\* least_squares_var_stats.FUDGE_REF, the reference value of fudge
FUDGE_REF == Frac(1, 10)

FUDGE_FIT_START == FUDGE_REF

ETA_FIT_START == Num(1)

VAR_LSS_FIT_START == Frac(1, 10)

\* the variance bin a pixel falls in: the nearest of log_lambda_var_func_grid
VarBin(x) ==
    LET bds == [j \in 1..(NumBinsVariance - 1) |->
                   log_lambda_var_func_grid[j] + log_lambda_var_func_grid[j + 1]]
    IN  Clip(SearchSorted2(bds, 2 * x), 0, NumBinsVariance - 1) + 1

\* LeastsSquaresVarStats.get_num_pixels for the bin index: the pixels of the
\* forests with a continuum that fall in the bin
RECURSIVE VarStatsNumPixels(_, _, _)
VarStatsNumPixels(forests, index, k) ==
    IF k > Len(forests) THEN 0
    ELSE VarStatsNumPixels(forests, index, k + 1)
         + (IF forests[k].continuum = None THEN 0
            ELSE Cardinality({i \in DOMAIN forests[k].log_lambda :
                                 VarBin(forests[k].log_lambda[i]) = index}))

\* the values a variance function starts from in compute_var_stats: the fit's
\* starting value when the function is fitted, its current values otherwise
VarStatsStart(self, name, start, current) ==
    IF name \in self.fit_variance_functions
    THEN [j \in 1..NumBinsVariance |-> start]
    ELSE CallAll(current, log_lambda_var_func_grid)

\* variant: a bin whose fit failed keeps the values Minuit stopped at
VarStatsArraysKeepingFailedFits(self, forests, minimizers) ==
    [eta |-> [j \in 1..NumBinsVariance |-> minimizers[j].eta],
     var_lss |-> [j \in 1..NumBinsVariance |-> minimizers[j].var_lss],
     fudge |-> [j \in 1..NumBinsVariance |-> FMul(minimizers[j].fudge, FUDGE_REF)],
     valid_fit |-> [j \in 1..NumBinsVariance |->
                      IF minimizers[j].valid THEN Num(1) ELSE Num(0)],
     num_pixels |-> [j \in 1..NumBinsVariance |-> Num(VarStatsNumPixels(forests, j, 1))]]

\* the loop of compute_var_stats, given what Minuit returned for each bin
\* (minimizers[j]: valid, and the values eta, var_lss, fudge of the parameters
\* it fitted, fudge in units of FUDGE_REF): the arrays after the loop
VarStatsArrays(self, forests, minimizers) ==
    LET eta0 == VarStatsStart(self, "eta", ETA_FIT_START, self.get_eta)
        var_lss0 == VarStatsStart(self, "var_lss", VAR_LSS_FIT_START, self.get_var_lss)
        fudge0 == VarStatsStart(self, "fudge", FUDGE_FIT_START, self.get_fudge)
        Fitted(name, j, start) ==
            IF name \in self.fit_variance_functions THEN minimizers[j][name] ELSE start[j]
        FittedFudge(j) == Fitted("fudge", j, [i \in 1..NumBinsVariance |->
                                                 FDiv(fudge0[i], FUDGE_REF)])
    IN  [eta |-> [j \in 1..NumBinsVariance |->
                    IF minimizers[j].valid THEN Fitted("eta", j, eta0) ELSE Num(1)],
         var_lss |-> [j \in 1..NumBinsVariance |->
                    IF minimizers[j].valid THEN Fitted("var_lss", j, var_lss0)
                    ELSE Frac(1, 10)],
         fudge |-> [j \in 1..NumBinsVariance |->
                    IF minimizers[j].valid THEN FMul(FittedFudge(j), FUDGE_REF)
                    ELSE FMul(Num(1), FUDGE_REF)],
         valid_fit |-> [j \in 1..NumBinsVariance |->
                    IF minimizers[j].valid THEN Num(1) ELSE Num(0)],
         num_pixels |-> [j \in 1..NumBinsVariance |->
                    Num(VarStatsNumPixels(forests, j, 1))]]

\* variant: the bins without pixels are knots too
VarStatsFunctionOnEveryBin(values, num_pixels) ==
    interp1d(log_lambda_var_func_grid, values, "nearest", "extrapolate")

\* an array of compute_var_stats as a function over the bins with pixels
VarStatsFunction(values, num_pixels) ==
    interp1d(Masked(log_lambda_var_func_grid, Populated(num_pixels)),
             Masked(values, Populated(num_pixels)), "nearest", "extrapolate")

\* the end of compute_var_stats, from the arrays of the loop: the updated
\* instance, or raised when interp1d refuses
VarStatsFromArrays(self, arrays) ==
    IF Interp1dRaises(Masked(log_lambda_var_func_grid, Populated(arrays.num_pixels)))
    THEN [raised |-> TRUE, self |-> self, arrays |-> arrays]
    ELSE [raised |-> FALSE,
          self |-> [self EXCEPT
              !.get_eta = VarStatsFunction(arrays.eta, arrays.num_pixels),
              !.get_var_lss = VarStatsFunction(arrays.var_lss, arrays.num_pixels),
              !.get_fudge = VarStatsFunction(arrays.fudge, arrays.num_pixels),
              !.get_num_pixels = VarStatsFunction(arrays.num_pixels, arrays.num_pixels),
              !.get_valid_fit = VarStatsFunction(arrays.valid_fit, arrays.num_pixels)],
          arrays |-> arrays]

\* compute_var_stats
compute_var_stats(self, forests, minimizers) ==
    VarStatsFromArrays(self, VarStatsArrays(self, forests, minimizers))

\* variant: the divisor is eta alone, without the (eta == 0) term
Pk1dIvarDividingByEta(forest, mean_expected_flux, eta) ==
    [i \in DOMAIN eta |->
        FMul(FDiv(forest.ivar[i], eta[i]),
             FMul(mean_expected_flux[i], mean_expected_flux[i]))]

\* forest.ivar / (eta + (eta == 0)) * mean_expected_flux**2, for a Pk1dForest
Pk1dIvar(forest, mean_expected_flux, eta) ==
    [i \in DOMAIN eta |->
        FMul(FDiv(forest.ivar[i],
                  FAdd(eta[i], IF FEq(eta[i], Num(0)) THEN Num(1) ELSE Num(0))),
             FMul(mean_expected_flux[i], mean_expected_flux[i]))]

\* the entry populate_los_ids writes for a forest with a continuum
ForestInfo(self, forest, mean_expected_flux) ==
    LET forest_info ==
            [key \in {"mean expected flux", "weights", "continuum"} |->
                IF key = "mean expected flux" THEN mean_expected_flux
                ELSE IF key = "weights"
                THEN VInv(compute_forest_variance(self, forest, mean_expected_flux))
                ELSE forest.continuum]
    IN  IF forest.pk1d
        THEN DictSet(forest_info, "ivar",
                     Pk1dIvar(forest, mean_expected_flux,
                              CallAll(self.get_eta, forest.log_lambda)))
        ELSE forest_info

\* populate_los_ids: self.los_ids after the loop over forests[k..]
RECURSIVE populate_los_ids(_, _, _)
populate_los_ids(self, forests, k) ==
    IF k > Len(forests) THEN self.los_ids
    ELSE populate_los_ids(
            IF forests[k].bad_continuum_reason # NoReason THEN self
            ELSE [self EXCEPT !.los_ids =
                    DictSet(self.los_ids, forests[k].los_id,
                            ForestInfo(self, forests[k],
                                       VMul(forests[k].continuum,
                                            CallAll(self.get_stack_delta,
                                                    forests[k].log_lambda))))],
            forests, k + 1)

\* variant: every snapshot goes to the file of the final one
IterOutFileOfFinalStep(self, iteration) == self.iter_out_prefix \o ".fits.gz"

\* the name of the file save_iteration_step writes (iteration -1: the final one)
IterOutFile(self, iteration) ==
    IF iteration = -1 THEN self.iter_out_prefix \o ".fits.gz"
    ELSE self.iter_out_prefix \o "_iteration" \o ToString(iteration + 1) \o ".fits.gz"

\* hdu_stack_deltas, hdu_var_func and hdu_cont: the columns written
hdu_stack_deltas(self) ==
    <<log_lambda_grid,
      CallAll(self.get_stack_delta, log_lambda_grid),
      CallAll(self.get_stack_delta_weights, log_lambda_grid)>>

hdu_var_func(self) ==
    <<log_lambda_var_func_grid,
      CallAll(self.get_eta, log_lambda_var_func_grid),
      CallAll(self.get_var_lss, log_lambda_var_func_grid),
      CallAll(self.get_fudge, log_lambda_var_func_grid),
      CallAll(self.get_num_pixels, log_lambda_var_func_grid),
      CallAll(self.get_valid_fit, log_lambda_var_func_grid)>>

hdu_cont(self) ==
    <<log_lambda_rest_frame_grid,
      CallAll(self.get_mean_cont, log_lambda_rest_frame_grid),
      CallAll(self.get_mean_cont_weight, log_lambda_rest_frame_grid)>>

\* save_iteration_step: the files of out_dir after the call (clobber=True)
save_iteration_step(self, files, iteration) ==
    DictSet(files, IterOutFile(self, iteration),
            [STACK_DELTAS |-> hdu_stack_deltas(self),
             VAR_FUNC |-> hdu_var_func(self),
             CONT |-> hdu_cont(self)])

\* ------------------------------------------------------------ configuration
\* A configparser section is a function from the names of the options it holds
\* to their values, strings written as sequences of characters; config.get of
\* an option it does not hold returns None.
RequiredOptions ==
    {"iter out prefix", "limit eta", "limit var lss", "num bins variance",
     "num iterations", "order", "use constant weight", "use ivar as weight"}

Digits == <<"0", "1", "2", "3", "4", "5", "6", "7", "8", "9">>

DigitValue(c) == (CHOOSE d \in DOMAIN Digits : Digits[d] = c) - 1

\* the value of a sequence of digits
RECURSIVE NatOf(_)
NatOf(ds) ==
    IF ds = <<>> THEN 0
    ELSE 10 * NatOf(SubSeq(ds, 1, Len(ds) - 1)) + DigitValue(ds[Len(ds)])

RECURSIVE Pow10(_)
Pow10(n) == IF n = 0 THEN 1 ELSE 10 * Pow10(n - 1)

\* str.strip() of blanks
RECURSIVE Strip(_)
Strip(s) ==
    IF s # <<>> /\ s[1] = " " THEN Strip(Tail(s))
    ELSE IF s # <<>> /\ s[Len(s)] = " " THEN Strip(SubSeq(s, 1, Len(s) - 1))
    ELSE s

\* str.split(sep): the parts between the separators
RECURSIVE Split(_, _)
Split(s, sep) ==
    IF \A i \in DOMAIN s : s[i] # sep THEN <<s>>
    ELSE LET i == CHOOSE j \in DOMAIN s :
                      s[j] = sep /\ \A l \in 1..(j - 1) : s[l] # sep
         IN  <<SubSeq(s, 1, i - 1)>> \o Split(SubSeq(s, i + 1, Len(s)), sep)

\* a string without its sign
Unsigned(t) == IF t # <<>> /\ t[1] \in {"+", "-"} THEN Tail(t) ELSE t

\* int(string) raises ValueError: blanks around, a sign, then digits alone
IntRaises(s) ==
    LET u == Unsigned(Strip(s))
    IN  u = <<>> \/ \E i \in DOMAIN u : u[i] \notin Range(Digits)

IntOf(s) ==
    LET t == Strip(s)
    IN  (IF t[1] = "-" THEN -1 ELSE 1) * NatOf(Unsigned(t))

\* float(string) raises ValueError: blanks around, a sign, digits with at
\* most one point among them (exponents, inf and nan are left out)
FloatRaises(s) ==
    LET u == Unsigned(Strip(s))
    IN  \/ \A i \in DOMAIN u : u[i] \notin Range(Digits)
        \/ \E i \in DOMAIN u : u[i] \notin Range(Digits) /\ u[i] # "."
        \/ Cardinality({i \in DOMAIN u : u[i] = "."}) > 1

FloatOf(s) ==
    LET t == Strip(s)
        u == Unsigned(t)
        parts == Split(u, ".")
        decimals == IF Len(parts) > 1 THEN parts[2] ELSE <<>>
    IN  Frac((IF t[1] = "-" THEN -1 ELSE 1) * NatOf(parts[1] \o decimals),
             Pow10(Len(decimals)))

\* RawConfigParser.BOOLEAN_STATES, in the spellings modelled
BooleanStates ==
    [value \in {<<"T", "r", "u", "e">>, <<"t", "r", "u", "e">>, <<"y", "e", "s">>,
                <<"o", "n">>, <<"1">>,
                <<"F", "a", "l", "s", "e">>, <<"f", "a", "l", "s", "e">>,
                <<"n", "o">>, <<"o", "f", "f">>, <<"0">>} |->
        value \in {<<"T", "r", "u", "e">>, <<"t", "r", "u", "e">>, <<"y", "e", "s">>,
                   <<"o", "n">>, <<"1">>}]

\* the string of a sequence of characters
RECURSIVE StringOf(_)
StringOf(s) == IF s = <<>> THEN "" ELSE Head(s) \o StringOf(Tail(s))

\* the lower end of an interval: limit[0], without a leading bracket
LimitMin(limit) ==
    IF limit[1] # <<>> /\ limit[1][1] \in {"(", "["} THEN Tail(limit[1]) ELSE limit[1]

\* the upper end of an interval: limit[1], without a trailing bracket
LimitMax(limit) ==
    IF limit[2] # <<>> /\ limit[2][Len(limit[2])] \in {")", "]"}
    THEN SubSeq(limit[2], 1, Len(limit[2]) - 1) ELSE limit[2]

\* the exception the parsing of "limit eta" or "limit var lss" ends in, "None"
\* when it ends in a pair: limit[1] of a string without a comma is an
\* IndexError, float of a part that is not a number a ValueError
ParseLimitRaises(limit) ==
    IF FloatRaises(LimitMin(limit)) THEN "ValueError"
    ELSE IF Len(limit) < 2 THEN "IndexError"
    ELSE IF FloatRaises(LimitMax(limit)) THEN "ValueError"
    ELSE "None"

ParseLimit(limit) == <<FloatOf(LimitMin(limit)), FloatOf(LimitMax(limit))>>

\* the options __parse_config stores when nothing raises
ParsedOptions(config) ==
    [iter_out_prefix |-> StringOf(config["iter out prefix"]),
     limit_eta |-> ParseLimit(Split(config["limit eta"], ",")),
     limit_var_lss |-> ParseLimit(Split(config["limit var lss"], ",")),
     num_bins_variance |-> IntOf(config["num bins variance"]),
     num_iterations |-> IntOf(config["num iterations"]),
     order |-> IntOf(config["order"]),
     use_constant_weight |-> BooleanStates[config["use constant weight"]],
     use_ivar_as_weight |-> BooleanStates[config["use ivar as weight"]],
     num_processors |-> 1]

\* the exception __parse_config raises on a section, "None" when it returns
ParseConfigRaises(config) ==
    IF "iter out prefix" \notin DOMAIN config THEN "ExpectedFluxError"
    ELSE IF \E i \in DOMAIN config["iter out prefix"] : config["iter out prefix"][i] = "/"
    THEN "ExpectedFluxError"
    ELSE IF "limit eta" \notin DOMAIN config THEN "ExpectedFluxError"
    ELSE IF ParseLimitRaises(Split(config["limit eta"], ",")) # "None"
    THEN ParseLimitRaises(Split(config["limit eta"], ","))
    ELSE IF "limit var lss" \notin DOMAIN config THEN "ExpectedFluxError"
    ELSE IF ParseLimitRaises(Split(config["limit var lss"], ",")) # "None"
    THEN ParseLimitRaises(Split(config["limit var lss"], ","))
    ELSE IF "num bins variance" \notin DOMAIN config THEN "ExpectedFluxError"
    ELSE IF IntRaises(config["num bins variance"]) THEN "ValueError"
    ELSE IF "num iterations" \notin DOMAIN config THEN "ExpectedFluxError"
    ELSE IF IntRaises(config["num iterations"]) THEN "ValueError"
    ELSE IF "order" \notin DOMAIN config THEN "ExpectedFluxError"
    ELSE IF IntRaises(config["order"]) THEN "ValueError"
    ELSE IF "use constant weight" \notin DOMAIN config THEN "ExpectedFluxError"
    ELSE IF config["use constant weight"] \notin DOMAIN BooleanStates THEN "ValueError"
    ELSE IF "use ivar as weight" \notin DOMAIN config THEN "ExpectedFluxError"
    ELSE IF config["use ivar as weight"] \notin DOMAIN BooleanStates THEN "ValueError"
    ELSE "None"

\* __parse_config: the exception raised, or the options stored
__parse_config(config) ==
    [raises |-> ParseConfigRaises(config),
     config |-> IF ParseConfigRaises(config) = "None" THEN ParsedOptions(config)
                ELSE None]

\* ------------------------------------------------------------ construction
\* _initialize_get_eta, _initialize_get_var_lss, _initialize_get_fudge
InitialEta(config) ==
    IF config.use_ivar_as_weight THEN Ones(NumBinsVariance)
    ELSE Zeros(NumBinsVariance)

InitialVarLss(config) ==
    IF config.use_ivar_as_weight THEN Zeros(NumBinsVariance)
    ELSE IF config.use_constant_weight THEN Ones(NumBinsVariance)
    ELSE [j \in 1..NumBinsVariance |-> Frac(2, 10)]

InitialFudge(config) == Zeros(NumBinsVariance)

\* the parameters the _initialize_get_* methods free for the fit
InitialFitVarianceFunctions(config) ==
    IF config.use_ivar_as_weight \/ config.use_constant_weight THEN {}
    ELSE {"eta", "var_lss", "fudge"}

\* _initialize_variance_functions: the valid_fit flags
InitialValidFit(config) ==
    IF config.use_ivar_as_weight \/ config.use_constant_weight
    THEN Ones(NumBinsVariance) ELSE Zeros(NumBinsVariance)

\* Dr16ExpectedFlux.__init__: the instance built from a parsed configuration
Dr16ExpectedFlux(config) ==
    [num_iterations |-> config.num_iterations,
     order |-> config.order,
     use_constant_weight |-> config.use_constant_weight,
     use_ivar_as_weight |-> config.use_ivar_as_weight,
     num_processors |-> config.num_processors,
     limit_eta |-> config.limit_eta,
     limit_var_lss |-> config.limit_var_lss,
     iter_out_prefix |-> config.iter_out_prefix,
     fit_variance_functions |-> InitialFitVarianceFunctions(config),
     get_mean_cont |->
        interp1d(log_lambda_rest_frame_grid, Ones(NRest), "linear", "extrapolate"),
     get_mean_cont_weight |->
        interp1d(log_lambda_rest_frame_grid, Zeros(NRest), "linear", "extrapolate"),
     get_eta |-> interp1d(log_lambda_var_func_grid, InitialEta(config),
                          "nearest", "extrapolate"),
     get_var_lss |-> interp1d(log_lambda_var_func_grid, InitialVarLss(config),
                              "nearest", "extrapolate"),
     get_fudge |-> interp1d(log_lambda_var_func_grid, InitialFudge(config),
                            "nearest", "extrapolate"),
     get_num_pixels |-> interp1d(log_lambda_var_func_grid, Zeros(NumBinsVariance),
                                 "nearest", "extrapolate"),
     get_valid_fit |-> interp1d(log_lambda_var_func_grid, InitialValidFit(config),
                                "nearest", "extrapolate"),
     continuum_fit_parameters |-> None,
     get_stack_delta |-> NoInterp,
     get_stack_delta_weights |-> NoInterp,
     los_ids |-> EmptyDict]

\* ------------------------------------------------------------------ inputs
\* the parsed configurations ("limit var lss" and "iter out prefix" at their
\* defaults): every number of iterations, with at most one of order, the
\* fixed-weight flags, the number of processes and "limit eta" off its default
Configs ==
    {c \in [num_iterations : 1..MaxIter, order : {0, 1},
            use_constant_weight : BOOLEAN, use_ivar_as_weight : BOOLEAN,
            num_processors : 1..MaxProc,
            limit_eta : {<<Frac(1, 2), Frac(3, 2)>>, <<Frac(11, 10), Frac(3, 2)>>},
            limit_var_lss : {<<Num(0), Frac(3, 10)>>},
            iter_out_prefix : {"delta_attributes"}] :
        (IF c.order = 0 THEN 1 ELSE 0)
        + (IF c.use_constant_weight \/ c.use_ivar_as_weight THEN 1 ELSE 0)
        + (IF c.num_processors > 1 THEN 1 ELSE 0)
        + (IF c.limit_eta # <<Frac(1, 2), Frac(3, 2)>> THEN 1 ELSE 0) <= 1}

\* a forest as the data stage hands it over: pixels on the rest-frame bins
\* lo..hi, shifted by z bins in the observed frame, no continuum yet
Forest(los_id, z, lo, hi, flux, pk1d) ==
    [los_id |-> los_id,
     z |-> z,
     log_lambda |-> [i \in 1..(hi - lo + 1) |-> log_lambda_grid[lo + z + i - 1]],
     flux |-> [i \in 1..(hi - lo + 1) |-> Num(flux)],
     ivar |-> [i \in 1..(hi - lo + 1) |-> Num(los_id)],
     transmission_correction |-> [i \in 1..(hi - lo + 1) |-> Num(1)],
     pk1d |-> pk1d,
     continuum |-> None,
     bad_continuum_reason |-> NoReason]

\* the forests a list may hold at position k: flux and ivar k at every pixel, pixels
\* on every rest-frame bin or on the first one alone (which leaves observed
\* bins without a pixel between the forests); the forests lie NRest bins apart
\* in the observed frame while the grid has room
ForestsAt(k) ==
    {Forest(k, ((k - 1) * NRest) % (NObs - NRest + 1), 1, hi, k, k = 1) :
        hi \in {1, NRest}}

\* the lists of forests handed to compute_expected_flux
ForestLists ==
    {fs \in [1..NumForests -> UNION {ForestsAt(k) : k \in 1..NumForests}] :
        \A k \in 1..NumForests : fs[k] \in ForestsAt(k)}

\* variant: the slope is a free parameter whatever the order
FitOutcomesWithFreeSlope(order) ==
    {m \in [valid : BOOLEAN, zero_point : {Num(-1), Num(0), Num(1)},
            slope : {Num(0), Num(1)}] :
        /\ m.slope # Num(0) => m.valid /\ m.zero_point = Num(1)
        /\ ~m.valid => m.zero_point # Num(0)}

\* what Minuit may return from the continuum fit: slope stays at its initial
\* value 0.0 when minimizer.fixed["slope"] is set (order 0)
FitOutcomes(order) ==
    {m \in [valid : BOOLEAN, zero_point : {Num(-1), Num(0), Num(1)},
            slope : IF order = 0 THEN {Num(0)} ELSE {Num(0), Num(1)}] :
        /\ m.slope # Num(0) => m.valid /\ m.zero_point = Num(1)
        /\ ~m.valid => m.zero_point # Num(0)}

\* variant: Minuit is given no limits and may stop outside them
VarFitOutcomesWithoutLimits(self) ==
    {[valid |-> FALSE, eta |-> Num(1), var_lss |-> Num(0), fudge |-> Num(0)],
     [valid |-> TRUE, eta |-> FSub(self.limit_eta[1], Num(1)),
      var_lss |-> self.limit_var_lss[2], fudge |-> Num(0)],
     [valid |-> TRUE, eta |-> self.limit_eta[2], var_lss |-> self.limit_var_lss[1],
      fudge |-> Num(1)]}

\* what Minuit may return for a variance bin: within minimizer.limits
VarFitOutcomes(self) ==
    {[valid |-> FALSE, eta |-> Num(1), var_lss |-> Num(0), fudge |-> Num(0)],
     [valid |-> TRUE, eta |-> self.limit_eta[1], var_lss |-> self.limit_var_lss[2],
      fudge |-> Num(0)],
     [valid |-> TRUE, eta |-> self.limit_eta[2], var_lss |-> self.limit_var_lss[1],
      fudge |-> Num(1)]}

\* ------------------------------------------------------------ TrueContinuum
\* the loop of compute_mean_cont_log and compute_mean_cont_lin over forests[k..],
\* given each forest's bins and var_lss at its pixels: the sums of
\* continuum * weights and of weights = 1 / (var_lss + var_pipe) per bin
RECURSIVE TrueMeanContLoop(_, _, _, _)
TrueMeanContLoop(forests, bins, var_lss, k) ==
    IF k > Len(forests)
    THEN [mean_cont |-> Zeros(NRest), mean_cont_weight |-> Zeros(NRest)]
    ELSE IF MeanContSkips(forests[k]) THEN TrueMeanContLoop(forests, bins, var_lss, k + 1)
    ELSE AddToMeanCont(TrueMeanContLoop(forests, bins, var_lss, k + 1),
                       bins[k],
                       forests[k].continuum,
                       [i \in DOMAIN forests[k].continuum |->
                           FInv(FAdd(var_lss[k][i],
                                     FDiv(FInv(forests[k].ivar[i]),
                                          FMul(forests[k].continuum[i],
                                               forests[k].continuum[i]))))])

\* the end of compute_mean_cont_log and compute_mean_cont_lin: the rest-frame
\* array is masked with w, mean_cont and mean_cont_weight are handed to
\* interp1d whole, and interp1d raises ValueError when x and y differ in length
TrueMeanCont(self, acc, rest_frame) ==
    IF \/ Interp1dRaises(Masked(rest_frame, Populated(acc.mean_cont_weight)))
       \/ Len(Masked(rest_frame, Populated(acc.mean_cont_weight))) # Len(acc.mean_cont)
    THEN [raised |-> TRUE, self |-> self, acc |-> acc]
    ELSE [raised |-> FALSE,
          self |-> [self EXCEPT
              !.get_mean_cont =
                  interp1d(Masked(rest_frame, Populated(acc.mean_cont_weight)),
                           NormalisedMeanCont(acc), "linear", "extrapolate"),
              !.get_mean_cont_weight =
                  interp1d(Masked(rest_frame, Populated(acc.mean_cont_weight)),
                           acc.mean_cont_weight, "linear", "zero")],
          acc |-> acc]

\* TrueContinuum.compute_mean_cont_log: bins by truncation of
\* (log_lambda - log_lambda_min_rest_frame - log10(1 + z)) / (max - min) * num_bins,
\* knots self.log_lambda_rest_frame (the centres of the num_bins parts)
compute_mean_cont_log(self, forests) ==
    TrueMeanCont(self,
        TrueMeanContLoop(forests,
            [k \in DOMAIN forests |->
                [i \in DOMAIN forests[k].log_lambda |->
                    ((forests[k].log_lambda[i] - log_lambda_rest_frame_grid[1]
                      - Log10OnePlusZ(forests[k])) * NRest)
                    \div (log_lambda_rest_frame_grid[NRest] - log_lambda_rest_frame_grid[1])
                    + 1]],
            [k \in DOMAIN forests |-> CallAll(self.get_var_lss, forests[k].log_lambda)],
            1),
        [j \in 1..NRest |->
            log_lambda_rest_frame_grid[1]
            + ((2 * j - 1) * (log_lambda_rest_frame_grid[NRest] - log_lambda_rest_frame_grid[1]))
              \div (2 * NRest)])

\* TrueContinuum.compute_mean_cont_lin: bins by truncation of
\* (lambda_ / (1 + z) - lambda_min_rest_frame) / (max - min) * num_bins,
\* knots self.lambda_rest_frame
compute_mean_cont_lin(self, forests) ==
    TrueMeanCont(self,
        TrueMeanContLoop(forests,
            [k \in DOMAIN forests |->
                [i \in DOMAIN forests[k].lambda_ |->
                    ((forests[k].lambda_[i]
                      - log_lambda_rest_frame_grid[1] * (1 + forests[k].z)) * NRest)
                    \div ((log_lambda_rest_frame_grid[NRest] - log_lambda_rest_frame_grid[1])
                          * (1 + forests[k].z))
                    + 1]],
            [k \in DOMAIN forests |-> CallAll(self.get_var_lss, forests[k].lambda_)],
            1),
        [j \in 1..NRest |->
            log_lambda_rest_frame_grid[1]
            + ((2 * j - 1) * (log_lambda_rest_frame_grid[NRest] - log_lambda_rest_frame_grid[1]))
              \div (2 * NRest)])

\* ------------------------------------------------------------------- state
VARIABLES
    self,       \* the Dr16ExpectedFlux instance of the coordinating process
    forests,    \* the list compute_expected_flux iterates over
    caller_forests, \* the Forest objects of the list the caller passed in
    pc,         \* the statement compute_expected_flux is at
    iteration,  \* the loop variable of compute_expected_flux
    fitted,     \* forests the serial list comprehension has fitted this round
    pool,       \* the worker pool of pool.map
    files,      \* the files of out_dir
    calls,      \* history: the calls made so far
    last_fit,   \* history: per forest, what its latest fit read and produced
    acc,        \* history: the sums and arrays the latest reductions accumulated
    end_of_round, \* history: the instance as it stood at the end of each round
    section     \* the configuration section __init__ is parsing (None once built)

vars == <<self, forests, caller_forests, pc, iteration, fitted, pool, files, calls,
          last_fit, acc, end_of_round, section>>

\* the shared model functions of an instance
ModelFunctions(s) ==
    <<s.get_mean_cont, s.get_mean_cont_weight, s.get_eta, s.get_var_lss, s.get_fudge,
      s.get_num_pixels, s.get_valid_fit>>

StackFunctions(s) == <<s.get_stack_delta, s.get_stack_delta_weights>>

NoPool == [open |-> FALSE, self |-> <<>>, next |-> 0,
           running |-> [w \in 1..MaxProc |-> 0], results |-> EmptyDict]

NoCallsInRound ==
    [compute_continuum |-> [k \in 1..NumForests |-> 0],
     compute_mean_cont |-> 0, compute_var_stats |-> 0, compute_delta_stack |-> 0]

Init ==
    /\ \E config \in Configs : self = Dr16ExpectedFlux(config)
    /\ forests \in ForestLists
    /\ caller_forests = forests
    /\ pc = "fit"
    /\ iteration = 0
    /\ fitted = 0
    /\ pool = NoPool
    /\ files = EmptyDict
    /\ calls = [round |-> NoCallsInRound, rounds |-> 0, save_iteration_step |-> 0,
                populate_los_ids |-> 0]
    /\ last_fit = [k \in 1..NumForests |-> [iteration |-> -1]]
    /\ acc = [compute_mean_cont |-> <<>>, compute_var_stats |-> <<>>,
              compute_delta_stack |-> <<>>]
    /\ end_of_round = <<>>
    /\ section = None

\* variant: the reductions of the model run in the last round too
AfterFitInEveryRound == "compute_mean_cont"

\* where compute_expected_flux goes once the continua of the round are fitted
AfterFit ==
    IF iteration < self.num_iterations - 1 THEN "compute_mean_cont"
    ELSE "compute_delta_stack"

\* history of a call of compute_continuum on forests[k], which returned r
FitRecord(reader, k, minimizer, r) ==
    [iteration |-> iteration, valid |-> minimizer.valid,
     zero_point |-> minimizer.zero_point, slope |-> minimizer.slope,
     temp_cont_model |-> TempContModel(reader, forests[k], minimizer),
     weights |-> get_continuum_weights(reader, forests[k],
                                       TempContModel(reader, forests[k], minimizer)),
     read |-> ModelFunctions(reader),
     continuum_fit_parameters |-> r.continuum_fit_parameters]

CountFit(k) ==
    [calls EXCEPT !.round.compute_continuum[k] = @ + 1]

\* the call on forests[k] of the list comprehension has returned r
SerialFitReturns(k, minimizer, r) ==
    /\ forests' = [forests EXCEPT ![k] = r.forest]
    /\ caller_forests' = [caller_forests EXCEPT ![k] = r.forest]
    /\ self' = [self EXCEPT !.continuum_fit_parameters = r.continuum_fit_parameters]
    /\ last_fit' = [last_fit EXCEPT ![k] = FitRecord(self, k, minimizer, r)]
    /\ calls' = CountFit(k)
    /\ fitted' = IF k = Len(forests) THEN 0 ELSE k
    /\ pc' = IF k = Len(forests) THEN AfterFit ELSE "fit"

\* forests = [self.compute_continuum(f) for f in forests]: one forest
FitSerial ==
    /\ pc = "fit"
    /\ ~(self.num_processors > 1)
    /\ \E minimizer \in FitOutcomes(self.order) :
         SerialFitReturns(fitted + 1, minimizer,
                          compute_continuum(self, forests[fitted + 1], minimizer))
    /\ UNCHANGED <<section, iteration, pool, files, acc, end_of_round>>

\* variant: the workers keep the copy of the instance as it was constructed
PoolMapOfStaleWorkers ==
    /\ pc = "fit"
    /\ self.num_processors > 1
    /\ pool' = [open |-> TRUE, self |-> Dr16ExpectedFlux(self), next |-> 1,
                running |-> [w \in 1..MaxProc |-> 0], results |-> EmptyDict]
    /\ pc' = "pool.map"
    /\ UNCHANGED <<section, self, forests, caller_forests, iteration, fitted, files, calls, last_fit, acc, end_of_round>>

\* with context.Pool(processes=self.num_processors): the workers are forked
\* with a copy of the instance, and pool.map queues the forests
PoolMap ==
    /\ pc = "fit"
    /\ self.num_processors > 1
    /\ pool' = [open |-> TRUE, self |-> self, next |-> 1,
                running |-> [w \in 1..MaxProc |-> 0], results |-> EmptyDict]
    /\ pc' = "pool.map"
    /\ UNCHANGED <<section, self, forests, caller_forests, iteration, fitted, files, calls, last_fit, acc, end_of_round>>

\* an idle worker takes the next forest of the queue
WorkerTake(w) ==
    /\ pool.open
    /\ w <= self.num_processors
    /\ pool.running[w] = 0
    /\ pool.next <= Len(forests)
    /\ pool' = [pool EXCEPT !.running[w] = pool.next, !.next = @ + 1]
    /\ UNCHANGED <<section, self, forests, caller_forests, pc, iteration, fitted, files, calls, last_fit, acc, end_of_round>>

\* the call of worker w on forests[k] has returned r
WorkerFitReturns(w, k, minimizer, r) ==
    /\ pool' = [pool EXCEPT !.running[w] = 0, !.results = DictSet(@, k, r.forest)]
    /\ last_fit' = [last_fit EXCEPT ![k] = FitRecord(pool.self, k, minimizer, r)]
    /\ calls' = CountFit(k)

\* a worker runs compute_continuum on its copy of the forest and of the
\* instance, and sends the modified forest back
WorkerFit(w) ==
    /\ pool.open
    /\ pool.running[w] # 0
    /\ \E minimizer \in FitOutcomes(self.order) :
         WorkerFitReturns(w, pool.running[w], minimizer,
                          compute_continuum(pool.self, forests[pool.running[w]], minimizer))
    /\ UNCHANGED <<section, self, forests, caller_forests, pc, iteration, fitted, files, acc, end_of_round>>

\* variant: the results come back in the reverse of the order of the list
PoolMapReturnsReversed ==
    /\ pc = "pool.map"
    /\ DOMAIN pool.results = 1..Len(forests)
    /\ forests' = [k \in 1..Len(forests) |-> pool.results[Len(forests) + 1 - k]]
    /\ pool' = NoPool
    /\ pc' = AfterFit
    /\ UNCHANGED <<section, self, caller_forests, iteration, fitted, files, calls, last_fit, acc, end_of_round>>

\* pool.map returns the list of results once every forest is back, and the
\* with block ends the pool
PoolMapReturns ==
    /\ pc = "pool.map"
    /\ DOMAIN pool.results = 1..Len(forests)
    /\ forests' = [k \in 1..Len(forests) |-> pool.results[k]]
    /\ pool' = NoPool
    /\ pc' = AfterFit
    /\ UNCHANGED <<section, self, caller_forests, iteration, fitted, files, calls, last_fit, acc, end_of_round>>

\* variant: the variance fit is skipped only when both flags are set
AfterMeanContUnlessBothFlags ==
    IF ~(self.use_ivar_as_weight /\ self.use_constant_weight) THEN "compute_var_stats"
    ELSE "compute_delta_stack"

\* where compute_expected_flux goes once compute_mean_cont has returned
AfterMeanCont ==
    IF ~(self.use_ivar_as_weight \/ self.use_constant_weight) THEN "compute_var_stats"
    ELSE "compute_delta_stack"

\* compute_mean_cont has returned or raised
MeanContReturns(r) ==
    /\ self' = r.self
    /\ acc' = [acc EXCEPT !.compute_mean_cont = r.acc]
    /\ pc' = IF r.raised THEN "raised" ELSE AfterMeanCont

ComputeMeanCont ==
    /\ pc = "compute_mean_cont"
    /\ MeanContReturns(compute_mean_cont(self, forests))
    /\ calls' = [calls EXCEPT !.round.compute_mean_cont = @ + 1]
    /\ UNCHANGED <<section, forests, caller_forests, iteration, fitted, pool, files, last_fit, end_of_round>>

\* compute_var_stats has returned or raised
VarStatsReturns(r, minimizers) ==
    /\ self' = r.self
    /\ acc' = [acc EXCEPT !.compute_var_stats =
                            [arrays |-> r.arrays, minimizers |-> minimizers]]
    /\ pc' = IF r.raised THEN "raised" ELSE "compute_delta_stack"

ComputeVarStats ==
    /\ pc = "compute_var_stats"
    /\ \E minimizers \in [1..NumBinsVariance -> VarFitOutcomes(self)] :
         VarStatsReturns(compute_var_stats(self, forests, minimizers), minimizers)
    /\ calls' = [calls EXCEPT !.round.compute_var_stats = @ + 1]
    /\ UNCHANGED <<section, forests, caller_forests, iteration, fitted, pool, files, last_fit, end_of_round>>

\* compute_delta_stack has returned or raised
DeltaStackReturns(r) ==
    /\ self' = r.self
    /\ acc' = [acc EXCEPT !.compute_delta_stack = r.acc]
    /\ pc' = IF r.raised THEN "raised" ELSE "save_iteration_step"

ComputeDeltaStack ==
    /\ pc = "compute_delta_stack"
    /\ DeltaStackReturns(compute_delta_stack(self, forests))
    /\ calls' = [calls EXCEPT !.round.compute_delta_stack = @ + 1]
    /\ UNCHANGED <<section, forests, caller_forests, iteration, fitted, pool, files, last_fit, end_of_round>>

\* variant: populate_los_ids is called inside the loop, after every round
SaveIterationStepThenPopulate ==
    /\ pc = "save_iteration_step"
    /\ files' = save_iteration_step(self, files,
                    IF iteration = self.num_iterations - 1 THEN -1 ELSE iteration)
    /\ end_of_round' = Append(end_of_round, self)
    /\ self' = [self EXCEPT !.los_ids = populate_los_ids(self, forests, 1)]
    /\ calls' = [calls EXCEPT !.save_iteration_step = @ + 1, !.rounds = @ + 1,
                              !.round = IF iteration + 1 < self.num_iterations
                                        THEN NoCallsInRound ELSE @]
    /\ iteration' = IF iteration + 1 < self.num_iterations THEN iteration + 1 ELSE iteration
    /\ pc' = IF iteration + 1 < self.num_iterations THEN "fit" ELSE "populate_los_ids"
    /\ UNCHANGED <<section, forests, caller_forests, fitted, pool, last_fit, acc>>

\* save_iteration_step, then the next turn of the loop or, after the last
\* one, the statement after the loop
SaveIterationStep ==
    /\ pc = "save_iteration_step"
    /\ files' = save_iteration_step(self, files,
                    IF iteration = self.num_iterations - 1 THEN -1 ELSE iteration)
    /\ end_of_round' = Append(end_of_round, self)
    /\ calls' = [calls EXCEPT !.save_iteration_step = @ + 1, !.rounds = @ + 1,
                              !.round = IF iteration + 1 < self.num_iterations
                                        THEN NoCallsInRound ELSE @]
    /\ iteration' = IF iteration + 1 < self.num_iterations THEN iteration + 1 ELSE iteration
    /\ pc' = IF iteration + 1 < self.num_iterations THEN "fit" ELSE "populate_los_ids"
    /\ UNCHANGED <<section, self, forests, caller_forests, fitted, pool, last_fit, acc>>

\* variant: the mean continuum is recomputed once more before los_ids is filled
PopulateLosIdsAfterMeanCont ==
    /\ pc = "populate_los_ids"
    /\ self' = [compute_mean_cont(self, forests).self EXCEPT
                    !.los_ids = populate_los_ids(self, forests, 1)]
    /\ calls' = [calls EXCEPT !.populate_los_ids = @ + 1]
    /\ pc' = "done"
    /\ UNCHANGED <<section, forests, caller_forests, iteration, fitted, pool, files, last_fit, acc, end_of_round>>

\* self.populate_los_ids(forests), the statement after the loop
PopulateLosIds ==
    /\ pc = "populate_los_ids"
    /\ self' = [self EXCEPT !.los_ids = populate_los_ids(self, forests, 1)]
    /\ calls' = [calls EXCEPT !.populate_los_ids = @ + 1]
    /\ pc' = "done"
    /\ UNCHANGED <<section, forests, caller_forests, iteration, fitted, pool, files, last_fit, acc, end_of_round>>

Next ==
    \/ FitSerial
    \/ PoolMap
    \/ \E w \in 1..MaxProc : WorkerTake(w)
    \/ \E w \in 1..MaxProc : WorkerFit(w)
    \/ PoolMapReturns
    \/ ComputeMeanCont
    \/ ComputeVarStats
    \/ ComputeDeltaStack
    \/ SaveIterationStep
    \/ PopulateLosIds

Spec == Init /\ [][Next]_vars

\* runs of MaxIter + 1 rounds with constant weights, order 0, in one process:
\* the mean continuum is recomputed from a mean continuum that is no longer
\* the constructed one
ConstantWeightConfigs ==
    [num_iterations : {MaxIter + 1}, order : {0},
     use_constant_weight : {TRUE}, use_ivar_as_weight : {FALSE},
     num_processors : {1},
     limit_eta : {<<Frac(1, 2), Frac(3, 2)>>},
     limit_var_lss : {<<Num(0), Frac(3, 10)>>},
     iter_out_prefix : {"delta_attributes"}]

InitConstantWeight ==
    /\ \E config \in ConstantWeightConfigs : self = Dr16ExpectedFlux(config)
    /\ forests \in ForestLists
    /\ caller_forests = forests
    /\ pc = "fit"
    /\ iteration = 0
    /\ fitted = 0
    /\ pool = NoPool
    /\ files = EmptyDict
    /\ calls = [round |-> NoCallsInRound, rounds |-> 0, save_iteration_step |-> 0,
                populate_los_ids |-> 0]
    /\ last_fit = [k \in 1..NumForests |-> [iteration |-> -1]]
    /\ acc = [compute_mean_cont |-> <<>>, compute_var_stats |-> <<>>,
              compute_delta_stack |-> <<>>]
    /\ end_of_round = <<>>
    /\ section = None

NextConstantWeight ==
    \/ FitSerial
    \/ ComputeMeanCont
    \/ ComputeDeltaStack
    \/ SaveIterationStep
    \/ PopulateLosIds

SpecConstantWeight == InitConstantWeight /\ [][NextConstantWeight]_vars

\* Dr16FixedEtaExpectedFlux.__init__ with a numeric "eta value": the parent's
\* construction with _initialize_get_eta overridden, which sets get_eta to the
\* value at every variance bin and does not free eta for the fit
Dr16FixedEtaExpectedFlux(config, eta_value) ==
    [eta_value |-> eta_value] @@
    [Dr16ExpectedFlux(config) EXCEPT
        !.get_eta = interp1d(log_lambda_var_func_grid,
                             [j \in 1..NumBinsVariance |-> FMul(Num(1), eta_value)],
                             "nearest", "extrapolate"),
        !.fit_variance_functions = @ \ {"eta"}]

\* compute_expected_flux of a Dr16FixedEtaExpectedFlux: serial runs of up to
\* MaxIter rounds with "eta value" 1.0 (the default) or 0.5
InitFixedEta ==
    /\ \E config \in [num_iterations : 1..MaxIter, order : {0},
                      use_constant_weight : {FALSE}, use_ivar_as_weight : {FALSE},
                      num_processors : {1},
                      limit_eta : {<<Frac(1, 2), Frac(3, 2)>>},
                      limit_var_lss : {<<Num(0), Frac(3, 10)>>},
                      iter_out_prefix : {"delta_attributes"}] :
          \E eta_value \in {Num(1), Frac(1, 2)} :
              self = Dr16FixedEtaExpectedFlux(config, eta_value)
    /\ forests \in ForestLists
    /\ caller_forests = forests
    /\ pc = "fit"
    /\ iteration = 0
    /\ fitted = 0
    /\ pool = NoPool
    /\ files = EmptyDict
    /\ calls = [round |-> NoCallsInRound, rounds |-> 0, save_iteration_step |-> 0,
                populate_los_ids |-> 0]
    /\ last_fit = [k \in 1..NumForests |-> [iteration |-> -1]]
    /\ acc = [compute_mean_cont |-> <<>>, compute_var_stats |-> <<>>,
              compute_delta_stack |-> <<>>]
    /\ end_of_round = <<>>
    /\ section = None

NextFixedEta ==
    \/ FitSerial
    \/ ComputeMeanCont
    \/ ComputeVarStats
    \/ ComputeDeltaStack
    \/ SaveIterationStep
    \/ PopulateLosIds

SpecFixedEta == InitFixedEta /\ [][NextFixedEta]_vars

\* compute_expected_flux of a TrueContinuum once read_true_continuum has run on
\* every forest: a wave solution, var_lss as read from the raw statistics, and
\* forests of one pixel strictly inside the rest-frame range, each with its
\* true continuum
InitTrueContinuum ==
    /\ \E wave_solution \in {"log", "lin"}, var_lss \in {Frac(1, 5), Num(1)} :
          self = [wave_solution |-> wave_solution,
                  num_processors |-> 1,
                  iter_out_prefix |-> "delta_attributes",
                  get_var_lss |-> interp1d(log_lambda_grid, [b \in 1..NObs |-> var_lss],
                                           "nearest", "extrapolate"),
                  get_mean_cont |-> NoInterp,
                  get_mean_cont_weight |-> NoInterp,
                  los_ids |-> EmptyDict]
    /\ \E offset \in [1..NumForests -> {1, Step - 1}],
          true_cont \in [1..NumForests -> {Num(1), Num(2), Num(3)}] :
          forests = [k \in 1..NumForests |->
                        [lambda_ |-> <<offset[k] * (1 + (((k - 1) * NRest) % (NObs - NRest + 1)))>>]
                        @@ [Forest(k, ((k - 1) * NRest) % (NObs - NRest + 1), 1, 1, k, FALSE)
                               EXCEPT !.log_lambda = <<@[1] + offset[k]>>,
                                      !.continuum = <<true_cont[k]>>]]
    /\ caller_forests = forests
    /\ pc = "compute_mean_cont"
    /\ iteration = 0
    /\ fitted = 0
    /\ pool = NoPool
    /\ files = EmptyDict
    /\ calls = [round |-> NoCallsInRound, rounds |-> 0, save_iteration_step |-> 0,
                populate_los_ids |-> 0]
    /\ last_fit = [k \in 1..NumForests |-> [iteration |-> -1]]
    /\ acc = [compute_mean_cont |-> <<>>, compute_var_stats |-> <<>>,
              compute_delta_stack |-> <<>>]
    /\ end_of_round = <<>>
    /\ section = None

\* self.compute_mean_cont_log(forests) or self.compute_mean_cont_lin(forests),
\* by Forest.wave_solution: it returns, or interp1d raises
TrueContinuumMeanCont ==
    /\ pc = "compute_mean_cont"
    /\ LET r == IF self.wave_solution = "log" THEN compute_mean_cont_log(self, forests)
                ELSE compute_mean_cont_lin(self, forests)
       IN  /\ self' = r.self
           /\ acc' = [acc EXCEPT !.compute_mean_cont = r.acc]
           /\ pc' = IF r.raised THEN "ValueError" ELSE "populate_los_ids"
    /\ calls' = [calls EXCEPT !.round.compute_mean_cont = @ + 1]
    /\ UNCHANGED <<section, forests, caller_forests, iteration, fitted, pool, files,
                   last_fit, end_of_round>>

SpecTrueContinuum == InitTrueContinuum /\ [][TrueContinuumMeanCont]_vars

\* the defaults of the module, as the strings a section holds
DefaultSection ==
    [option \in RequiredOptions |->
        CASE option = "iter out prefix" ->
                <<"d", "e", "l", "t", "a", "_", "a", "t", "t", "r", "i", "b", "u", "t",
                  "e", "s">>
          [] option = "limit eta" -> <<"(", "0", ".", "5", ",", " ", "1", ".", "5", ")">>
          [] option = "limit var lss" -> <<"(", "0", ".", ",", " ", "0", ".", "3", ")">>
          [] option = "num bins variance" -> <<Digits[NumBinsVariance + 1]>>
          [] option = "num iterations" -> <<Digits[MaxIter + 1]>>
          [] option = "order" -> <<"1">>
          [] option = "use constant weight" -> <<"F", "a", "l", "s", "e">>
          [] option = "use ivar as weight" -> <<"F", "a", "l", "s", "e">>]

\* the other values an option may hold: a prefix with a folder, an interval of
\* one value, one with its ends exchanged, one with a semicolon, the orders 0
\* and 2, the flags set
OtherValues(option) ==
    CASE option = "iter out prefix" -> {<<"a", "/", "b">>}
      [] option = "limit eta" ->
            {<<"0", ".", "5">>, <<"(", "1", ".", "5", ",", " ", "0", ".", "5", ")">>}
      [] option = "limit var lss" ->
            {<<"(", "0", ".", ";", " ", "0", ".", "3", ")">>,
             <<"[", "0", ".", "3", ",", "0", "]">>}
      [] option = "order" -> {<<"0">>, <<"2">>}
      [] option = "use constant weight" -> {<<"T", "r", "u", "e">>}
      [] option = "use ivar as weight" -> {<<"y", "e", "s">>}
      [] OTHER -> {}

\* what a section may do with an option: leave it out, or hold a value
Choices(option) ==
    {[held |-> FALSE, value |-> <<>>]}
    \cup {[held |-> TRUE, value |-> v] : v \in OtherValues(option) \cup {DefaultSection[option]}}

\* the section config with the option left out or set
WithOption(config, option, choice) ==
    [o \in IF choice.held THEN DOMAIN config ELSE (DOMAIN config) \ {option} |->
        IF o = option THEN choice.value ELSE config[o]]

\* the sections handed to the constructor: the defaults, with at most two
\* options left out or changed
ConfigSections ==
    UNION {{WithOption(WithOption(DefaultSection, o1, c1), o2, c2) :
                c1 \in Choices(o1), c2 \in Choices(o2)} :
           o1 \in RequiredOptions, o2 \in RequiredOptions}

InitConstruct ==
    /\ section \in ConfigSections
    /\ self = None
    /\ forests = <<>>
    /\ caller_forests = <<>>
    /\ pc = "__init__"
    /\ iteration = 0
    /\ fitted = 0
    /\ pool = NoPool
    /\ files = EmptyDict
    /\ calls = [round |-> NoCallsInRound, rounds |-> 0, save_iteration_step |-> 0,
                populate_los_ids |-> 0]
    /\ last_fit = [k \in 1..NumForests |-> [iteration |-> -1]]
    /\ acc = [compute_mean_cont |-> <<>>, compute_var_stats |-> <<>>,
              compute_delta_stack |-> <<>>]
    /\ end_of_round = <<>>

\* __parse_config has returned or raised
ParseConfigReturns(r) ==
    /\ self' = IF r.raises = "None" THEN Dr16ExpectedFlux(r.config) ELSE self
    /\ pc' = IF r.raises = "None" THEN "fit" ELSE r.raises

\* Dr16ExpectedFlux(config): __init__ parses the section, then builds the
\* initial functions; an exception of __parse_config ends the construction
Construct ==
    /\ pc = "__init__"
    /\ ParseConfigReturns(__parse_config(section))
    /\ UNCHANGED <<section, forests, caller_forests, iteration, fitted, pool, files, calls, last_fit, acc,
                   end_of_round>>

SpecConstruct == InitConstruct /\ [][Construct]_vars

\* ------------------------------------------------------------------ claims
\* compute_continuum has run on forests[k]
HasBeenFit(k) == last_fit[k].iteration >= 0

\* the latest call of compute_continuum on forests[k] failed: Minuit did not
\* converge, or the model it built has a negative sample
FitFailed(k) ==
    \/ ~last_fit[k].valid
    \/ \E i \in DOMAIN last_fit[k].temp_cont_model : FLt0(last_fit[k].temp_cont_model[i])

\* forests[k] as its latest call of compute_continuum returned it
FittedForest(k) ==
    IF pool.open /\ k \in DOMAIN pool.results THEN pool.results[k] ELSE forests[k]

\* the instance as it stood when the current round began
StartOfRound ==
    IF iteration = 0 THEN Dr16ExpectedFlux(self) ELSE end_of_round[iteration]

\* compute_expected_flux is past the fits of the current round
PastTheFits ==
    pc \in {"compute_mean_cont", "compute_var_stats", "compute_delta_stack",
            "save_iteration_step", "populate_los_ids", "done"}

\* C1: compute_expected_flux runs exactly num_iterations rounds, fits every
\* forest exactly once in each, and ends with exactly one populate_los_ids
C1_ExactlyNRoundsThenPopulate ==
    /\ PastTheFits => \A k \in 1..NumForests : calls.round.compute_continuum[k] = 1
    /\ calls.rounds <= self.num_iterations
    /\ pc \in {"done", "raised"} =>
          /\ calls.rounds = self.num_iterations
          /\ calls.populate_los_ids = 1

\* C2: no fit is in progress while a reduction, the snapshot or the
\* finalization runs, every forest has been fitted in the round by then, no
\* reduction of a round is done while its fits run, and every fit read the
\* model functions as they stood at the end of the previous round
C2_BarrierBetweenFitsAndReductions ==
    /\ pc \notin {"fit", "pool.map"} =>
          /\ ~pool.open
          /\ \A w \in 1..MaxProc : pool.running[w] = 0
          /\ fitted = 0
    /\ PastTheFits => \A k \in 1..NumForests : last_fit[k].iteration = iteration
    /\ pc \in {"fit", "pool.map"} =>
          /\ calls.round.compute_mean_cont = 0
          /\ calls.round.compute_var_stats = 0
          /\ calls.round.compute_delta_stack = 0
          /\ Len(end_of_round) = iteration
          /\ ModelFunctions(self) = ModelFunctions(StartOfRound)
    /\ \A k \in 1..NumForests :
          HasBeenFit(k) =>
              last_fit[k].read =
                  ModelFunctions(IF last_fit[k].iteration = 0 THEN Dr16ExpectedFlux(self)
                                 ELSE end_of_round[last_fit[k].iteration])

\* C2 happens: a worker is fitting in a round that follows a round whose
\* reductions replaced the mean continuum
C2_Witness ==
    /\ pool.open
    /\ \E w \in 1..MaxProc : pool.running[w] # 0
    /\ \E k \in 1..NumForests : last_fit[k].iteration = iteration
    /\ iteration >= 1
    /\ ModelFunctions(self) # ModelFunctions(Dr16ExpectedFlux(self))

\* C3: in a round compute_mean_cont has run (once) iff the round is not the
\* last one, compute_var_stats iff moreover the weights are not fixed, and
\* compute_delta_stack in every round; the finalization uses the model
\* functions of the end of round num_iterations - 2, the constructed ones when
\* num_iterations = 1
C3_ModelReductionsSkipLastRound ==
    /\ pc = "compute_var_stats" => calls.round.compute_mean_cont = 1
    /\ pc \in {"save_iteration_step", "populate_los_ids", "done"} =>
          /\ calls.round.compute_mean_cont =
                IF iteration < self.num_iterations - 1 THEN 1 ELSE 0
          /\ calls.round.compute_var_stats =
                IF /\ iteration < self.num_iterations - 1
                   /\ ~(self.use_ivar_as_weight \/ self.use_constant_weight)
                THEN 1 ELSE 0
          /\ calls.round.compute_delta_stack = 1
    /\ pc \in {"populate_los_ids", "done"} =>
          ModelFunctions(self) =
              ModelFunctions(IF self.num_iterations = 1 THEN Dr16ExpectedFlux(self)
                             ELSE end_of_round[self.num_iterations - 1])

\* C3 happens: a run of two rounds with fitted variance functions is over
C3_Witness ==
    /\ pc = "done"
    /\ self.num_iterations = 2
    /\ self.fit_variance_functions # {}
    /\ ModelFunctions(self) # ModelFunctions(Dr16ExpectedFlux(self))

\* C4: no fit outcome makes compute_expected_flux raise
C4_FailingFitsNeverAbort == pc # "raised"

\* C5 as stated: after compute_continuum failed on a forest, its continuum is
\* None, its reason is "did not converge" or "negative continuum" and the
\* cached parameters are (NaN, NaN); continuum is None iff a reason is set
C5_ReasonDidNotConverge ==
    \A k \in 1..NumForests :
        HasBeenFit(k) =>
            LET forest == FittedForest(k)
            IN  /\ forest.continuum = None <=> forest.bad_continuum_reason # NoReason
                /\ FitFailed(k) =>
                      /\ forest.continuum = None
                      /\ forest.bad_continuum_reason \in
                            {"did not converge", "negative continuum"}
                      /\ last_fit[k].continuum_fit_parameters[forest.los_id] = <<NaN, NaN>>
                /\ ~FitFailed(k) =>
                      /\ forest.continuum = last_fit[k].temp_cont_model
                      /\ forest.bad_continuum_reason = NoReason

\* C5 amended: after compute_continuum failed on a forest, its continuum is
\* None, its reason is "minuit didn't converge" or "negative continuum" and
\* the cached parameters are (NaN, NaN); once a forest has been fitted, its
\* continuum is None iff a reason is set
C5_FailedFitIsFlagged ==
    \A k \in 1..NumForests :
        HasBeenFit(k) =>
            LET forest == FittedForest(k)
            IN  /\ forest.continuum = None <=> forest.bad_continuum_reason # NoReason
                /\ FitFailed(k) =>
                      /\ forest.continuum = None
                      /\ forest.bad_continuum_reason \in
                            {"minuit didn't converge", "negative continuum"}
                      /\ last_fit[k].continuum_fit_parameters[forest.los_id] = <<NaN, NaN>>
                /\ ~FitFailed(k) =>
                      /\ forest.continuum = last_fit[k].temp_cont_model
                      /\ forest.bad_continuum_reason = NoReason

\* C5 happens: one fit failed for want of convergence, another for a negative
\* model
C5_Witness ==
    /\ \E k \in 1..NumForests :
          /\ HasBeenFit(k)
          /\ ~last_fit[k].valid
          /\ FittedForest(k).bad_continuum_reason = "minuit didn't converge"
    /\ \E k \in 1..NumForests :
          /\ HasBeenFit(k)
          /\ FitFailed(k)
          /\ FittedForest(k).bad_continuum_reason = "negative continuum"

\* C6 as stated: a fitted forest's continuum is None or has the length of its
\* flux and is strictly positive at every sample
C6_ContinuumStrictlyPositive ==
    \A k \in 1..NumForests :
        HasBeenFit(k) =>
            LET forest == FittedForest(k)
            IN  \/ forest.continuum = None
                \/ /\ Len(forest.continuum) = Len(forest.flux)
                   /\ \A i \in DOMAIN forest.continuum : FGt0(forest.continuum[i])

\* C6 amended: a fitted forest's continuum is None or has the length of its
\* flux and no negative sample
C6_ContinuumNeverNegative ==
    \A k \in 1..NumForests :
        HasBeenFit(k) =>
            LET forest == FittedForest(k)
            IN  \/ forest.continuum = None
                \/ /\ Len(forest.continuum) = Len(forest.flux)
                   /\ \A i \in DOMAIN forest.continuum : ~FLt0(forest.continuum[i])

\* C6 happens: a continuum with a sample equal to 0 is stored
C6_Witness ==
    \E k \in 1..NumForests :
        /\ HasBeenFit(k)
        /\ FittedForest(k).continuum # None
        /\ \E i \in DOMAIN FittedForest(k).continuum : FittedForest(k).continuum[i] = Num(0)

\* C7: once the run is over, los_ids holds a forest's los_id iff its fit of
\* the last round succeeded; before that los_ids is empty
C7_LosIdsOfFinalRoundSuccesses ==
    /\ pc # "done" => self.los_ids = EmptyDict
    /\ pc = "done" =>
          /\ DOMAIN self.los_ids \subseteq {forests[k].los_id : k \in 1..NumForests}
          /\ \A k \in 1..NumForests :
                forests[k].los_id \in DOMAIN self.los_ids
                    <=> /\ last_fit[k].iteration = self.num_iterations - 1
                        /\ ~FitFailed(k)

\* C7 happens: a run of two rounds is over, one forest is in los_ids and one
\* is not
C7_Witness ==
    /\ pc = "done"
    /\ self.num_iterations = 2
    /\ \E k \in 1..NumForests : forests[k].los_id \in DOMAIN self.los_ids
    /\ \E k \in 1..NumForests : forests[k].los_id \notin DOMAIN self.los_ids

\* the forests whose latest fit succeeded, in the order of the list
ForestsFitted == Masked(forests, {k \in 1..NumForests : ~FitFailed(k)})

\* C8: the sums compute_mean_cont and compute_delta_stack accumulate are the
\* sums over the forests whose fit succeeded alone, and the list keeps its
\* length and its order
C8_FailedForestsAddNothing ==
    /\ Len(forests) = NumForests
    /\ \A k \in 1..NumForests : forests[k].los_id = k
    /\ PastTheFits /\ calls.round.compute_mean_cont = 1 =>
          acc.compute_mean_cont = MeanContLoop(StartOfRound, ForestsFitted, 1)
    /\ PastTheFits /\ calls.round.compute_delta_stack = 1 =>
          acc.compute_delta_stack = DeltaStackLoop(self, ForestsFitted, 1)

\* C8 happens: both reductions of a round have run over a list with a forest
\* whose fit failed and a forest whose fit succeeded
C8_Witness ==
    /\ pc = "save_iteration_step"
    /\ calls.round.compute_mean_cont = 1
    /\ calls.round.compute_delta_stack = 1
    /\ \E k \in 1..NumForests : FitFailed(k)
    /\ \E k \in 1..NumForests : ~FitFailed(k)

\* C9: with use_ivar_as_weight eta, var_lss, fudge are 1, 0, 0 at every
\* variance bin, with use_constant_weight alone they are 0, 1, 0, in every
\* state of the run, and compute_var_stats is never run
C9_FixedWeightsStayFixed ==
    self.use_ivar_as_weight \/ self.use_constant_weight =>
        /\ pc # "compute_var_stats"
        /\ calls.round.compute_var_stats = 0
        /\ CallAll(self.get_eta, log_lambda_var_func_grid) =
              IF self.use_ivar_as_weight THEN Ones(NumBinsVariance)
              ELSE Zeros(NumBinsVariance)
        /\ CallAll(self.get_var_lss, log_lambda_var_func_grid) =
              IF self.use_ivar_as_weight THEN Zeros(NumBinsVariance)
              ELSE Ones(NumBinsVariance)
        /\ CallAll(self.get_fudge, log_lambda_var_func_grid) = Zeros(NumBinsVariance)

\* C9 happens: a run of two rounds with constant weights is over
C9_Witness ==
    /\ self.use_constant_weight
    /\ ~self.use_ivar_as_weight
    /\ self.num_iterations = 2
    /\ pc = "done"

\* compute_mean_cont has returned in the current round
MeanContReturned ==
    /\ pc \in {"compute_var_stats", "compute_delta_stack", "save_iteration_step"}
    /\ calls.round.compute_mean_cont = 1

\* the sample mean of get_mean_cont over the rest-frame grid
MeanContSampleMean(s) == Mean(CallAll(s.get_mean_cont, log_lambda_rest_frame_grid))

IvarDivisor(eta) == FAdd(eta, IF FEq(eta, Num(0)) THEN Num(1) ELSE Num(0))

\* the entry of los_ids of a forest agrees with the claim, given the mean
\* expected flux and eta at the forest's pixels
LosIdsEntryAgrees(entry, forest, mean_expected_flux, eta) ==
    /\ DOMAIN entry = {"mean expected flux", "weights", "continuum"}
                      \cup (IF forest.pk1d THEN {"ivar"} ELSE {})
    /\ entry["mean expected flux"] = mean_expected_flux
    /\ entry["weights"] = VInv(compute_forest_variance(self, forest, mean_expected_flux))
    /\ entry["continuum"] = forest.continuum
    /\ forest.pk1d =>
          /\ DOMAIN entry["ivar"] = DOMAIN forest.flux
          /\ \A i \in DOMAIN forest.flux :
                /\ IvarDivisor(eta[i]) # Num(0)
                /\ entry["ivar"][i] =
                      FMul(FDiv(forest.ivar[i], IvarDivisor(eta[i])),
                           FMul(mean_expected_flux[i], mean_expected_flux[i]))

\* C11: every entry of los_ids holds exactly the keys "mean expected flux"
\* (continuum times get_stack_delta at the forest's pixels), "weights" (1 over
\* compute_forest_variance at the mean expected flux) and "continuum", and the
\* key "ivar" iff the forest is a Pk1dForest, with the value
\* forest.ivar / (eta + [eta == 0]) * mean_expected_flux^2, whose divisor is
\* never 0
C11_LosIdsEntries ==
    \A k \in 1..NumForests :
        forests[k].los_id \in DOMAIN self.los_ids =>
            LosIdsEntryAgrees(self.los_ids[forests[k].los_id], forests[k],
                              VMul(forests[k].continuum,
                                   CallAll(self.get_stack_delta, forests[k].log_lambda)),
                              CallAll(self.get_eta, forests[k].log_lambda))

\* C11 happens: los_ids holds a Pk1dForest at whose pixels eta is 0 and
\* another forest that is not a Pk1dForest
C11_Witness ==
    /\ pc = "done"
    /\ \E k \in 1..NumForests :
          /\ forests[k].los_id \in DOMAIN self.los_ids
          /\ forests[k].pk1d
          /\ \E i \in DOMAIN forests[k].log_lambda :
                Call(self.get_eta, forests[k].log_lambda[i]) = Num(0)
          /\ \E i \in DOMAIN forests[k].log_lambda :
                self.los_ids[forests[k].los_id]["ivar"][i] # Num(0)
    /\ \E k \in 1..NumForests :
          /\ forests[k].los_id \in DOMAIN self.los_ids
          /\ ~forests[k].pk1d

\* the name the snapshot of round k (from 0) of a run of num_iterations rounds
\* is expected under
SnapshotName(k) ==
    IF k < self.num_iterations - 1
    THEN self.iter_out_prefix \o "_iteration" \o ToString(k + 1) \o ".fits.gz"
    ELSE self.iter_out_prefix \o ".fits.gz"

\* the tables of a snapshot of the instance s
Snapshot(s) ==
    [STACK_DELTAS |-> hdu_stack_deltas(s), VAR_FUNC |-> hdu_var_func(s),
     CONT |-> hdu_cont(s)]

\* C12: a run writes one snapshot per round, after the round's
\* compute_delta_stack: round k < N - 1 writes <prefix>_iteration{k+1}.fits.gz
\* and the last round <prefix>.fits.gz, never <prefix>_iterationN.fits.gz; the
\* names are pairwise distinct and every snapshot written stays as its round
\* wrote it, so a completed run of N rounds leaves exactly N snapshots
C12_OneSnapshotPerRound ==
    /\ calls.save_iteration_step = calls.rounds
    /\ DOMAIN files = {SnapshotName(k) : k \in 0..(calls.rounds - 1)}
    /\ Cardinality(DOMAIN files) = calls.rounds
    /\ self.iter_out_prefix \o "_iteration" \o ToString(self.num_iterations) \o ".fits.gz"
          \notin DOMAIN files
    /\ \A r \in 1..Len(end_of_round) :
          files[SnapshotName(r - 1)] = Snapshot(end_of_round[r])
    /\ pc = "save_iteration_step" =>
          /\ calls.round.compute_delta_stack = 1
          /\ calls.rounds = iteration
    /\ pc \in {"populate_los_ids", "done"} =>
          /\ calls.rounds = self.num_iterations
          /\ self.iter_out_prefix \o ".fits.gz" \in DOMAIN files

\* C12 happens: a run of two rounds is over and left two snapshots that differ
C12_Witness ==
    /\ pc = "done"
    /\ self.num_iterations = 2
    /\ Cardinality(DOMAIN files) = 2
    /\ files[self.iter_out_prefix \o "_iteration1.fits.gz"]
          # files[self.iter_out_prefix \o ".fits.gz"]

\* C13: from the final save_iteration_step to the end of populate_los_ids none
\* of the stack, variance and mean-continuum functions is replaced, and the
\* tables of the final snapshot are those functions evaluated on their grids
C13_FinalSnapshotIsTheModelInMemory ==
    pc \in {"populate_los_ids", "done"} =>
        /\ ModelFunctions(self) = ModelFunctions(end_of_round[self.num_iterations])
        /\ StackFunctions(self) = StackFunctions(end_of_round[self.num_iterations])
        /\ files[self.iter_out_prefix \o ".fits.gz"].STACK_DELTAS =
              <<log_lambda_grid,
                CallAll(self.get_stack_delta, log_lambda_grid),
                CallAll(self.get_stack_delta_weights, log_lambda_grid)>>
        /\ files[self.iter_out_prefix \o ".fits.gz"].VAR_FUNC =
              <<log_lambda_var_func_grid,
                CallAll(self.get_eta, log_lambda_var_func_grid),
                CallAll(self.get_var_lss, log_lambda_var_func_grid),
                CallAll(self.get_fudge, log_lambda_var_func_grid),
                CallAll(self.get_num_pixels, log_lambda_var_func_grid),
                CallAll(self.get_valid_fit, log_lambda_var_func_grid)>>
        /\ files[self.iter_out_prefix \o ".fits.gz"].CONT =
              <<log_lambda_rest_frame_grid,
                CallAll(self.get_mean_cont, log_lambda_rest_frame_grid),
                CallAll(self.get_mean_cont_weight, log_lambda_rest_frame_grid)>>

\* C13 happens: a run of two rounds that refitted the variance functions is
\* over, with a forest in los_ids
C13_Witness ==
    /\ pc = "done"
    /\ self.num_iterations = 2
    /\ self.fit_variance_functions # {}
    /\ self.los_ids # EmptyDict
    /\ ModelFunctions(self) # ModelFunctions(Dr16ExpectedFlux(self))

\* a bound interval that is not two numbers, or whose lower bound is above
\* the upper one
BadInterval(string) ==
    \/ Len(Split(string, ",")) # 2
    \/ ParseLimitRaises(Split(string, ",")) # "None"
    \/ FLt0(FSub(ParseLimit(Split(string, ","))[2], ParseLimit(Split(string, ","))[1]))

\* the section misses a required option, or holds a prefix with a folder, a
\* bad interval or an order other than 0 or 1
InvalidOption(config) ==
    \/ \E option \in RequiredOptions : option \notin DOMAIN config
    \/ /\ "iter out prefix" \in DOMAIN config
       /\ \E i \in DOMAIN config["iter out prefix"] : config["iter out prefix"][i] = "/"
    \/ \E option \in {"limit eta", "limit var lss"} :
          option \in DOMAIN config /\ BadInterval(config[option])
    \/ /\ "order" \in DOMAIN config
       /\ (IntRaises(config["order"]) \/ IntOf(config["order"]) \notin {0, 1})

\* C14: the construction from a section that misses a required option or
\* holds an invalid one (a prefix with '/', a malformed interval, a lower
\* bound above the upper one, an order other than 0 or 1) raises
\* ExpectedFluxError, before any round has begun
C14_InvalidOptionRaisesExpectedFluxError ==
    pc # "__init__" /\ InvalidOption(section) =>
        /\ pc = "ExpectedFluxError"
        /\ calls.rounds = 0
        /\ calls.round = NoCallsInRound

\* what Minuit returned in the latest fit of forests[k]
LastMinimizer(k) ==
    [valid |-> last_fit[k].valid, zero_point |-> last_fit[k].zero_point,
     slope |-> last_fit[k].slope]

\* the list a serial left-to-right fit returns in the current round, Minuit
\* returning for each forest what it returned in the run
SerialFit ==
    [k \in 1..NumForests |->
        compute_continuum(StartOfRound, forests[k], LastMinimizer(k)).forest]

\* C15: whatever the schedule and the number of processes, a forest fitted in
\* the current round has the continuum and the failure reason a serial
\* left-to-right fit gives it, at the same place of the list, and los_ids at
\* the end of the run is the one populate_los_ids builds from the serial list
C15_FitsIndependentOfSchedule ==
    /\ \A k \in 1..NumForests : forests[k].los_id = k
    /\ \A k \in 1..NumForests :
          last_fit[k].iteration = iteration =>
              /\ FittedForest(k).los_id = k
              /\ FittedForest(k).continuum = SerialFit[k].continuum
              /\ FittedForest(k).bad_continuum_reason = SerialFit[k].bad_continuum_reason
    /\ pc = "done" =>
          self.los_ids = populate_los_ids([self EXCEPT !.los_ids = EmptyDict], SerialFit, 1)

\* C15 happens: in a round that follows a change of the mean continuum, the
\* second forest of the list is back from its worker before the first one
C15_Witness ==
    /\ pool.open
    /\ iteration = 1
    /\ ModelFunctions(self) # ModelFunctions(Dr16ExpectedFlux(self))
    /\ 2 \in DOMAIN pool.results
    /\ 1 \notin DOMAIN pool.results
    /\ pool.results[2].continuum # None

\* C16: once the fits of a round are over, continuum_fit_parameters of the
\* instance holds, for the los_id of every forest of the list, the fitted
\* (zero_point, slope), or (NaN, NaN) when the fit failed
C16_FitParametersOfEveryForest ==
    PastTheFits =>
        \A k \in 1..NumForests :
            /\ forests[k].los_id \in DOMAIN self.continuum_fit_parameters
            /\ self.continuum_fit_parameters[forests[k].los_id] =
                  IF FitFailed(k) THEN <<NaN, NaN>>
                  ELSE <<last_fit[k].zero_point, last_fit[k].slope>>

\* the grid coordinates of the bins whose weight is > 0
BinsWithWeight(grid, weight) == Masked(grid, {b \in DOMAIN weight : weight[b][1] > 0})

\* the weights compute_mean_cont accumulated in its latest call, none before
\* the first call
MeanContWeightAccumulated ==
    IF DOMAIN acc.compute_mean_cont = {} THEN Zeros(NRest)
    ELSE acc.compute_mean_cont.mean_cont_weight

\* C17 as stated: in every state, right after construction included, the
\* knots of get_mean_cont and get_mean_cont_weight are the rest-frame bins
\* with accumulated weight > 0, and the knots of get_stack_delta and
\* get_stack_delta_weights the observed bins with stack weight > 0
C17_KnotsAreTheBinsWithWeight ==
    pc # "raised" =>
        /\ self.get_mean_cont.x =
              BinsWithWeight(log_lambda_rest_frame_grid, MeanContWeightAccumulated)
        /\ self.get_mean_cont_weight.x =
              BinsWithWeight(log_lambda_rest_frame_grid, MeanContWeightAccumulated)
        /\ self.get_stack_delta # NoInterp =>
              /\ self.get_stack_delta.x =
                    BinsWithWeight(log_lambda_grid, acc.compute_delta_stack.stack_weight)
              /\ self.get_stack_delta_weights.x =
                    BinsWithWeight(log_lambda_grid, acc.compute_delta_stack.stack_weight)

\* C17 amended: once compute_mean_cont has returned, the knots of get_mean_cont
\* and get_mean_cont_weight are the rest-frame bins with accumulated weight
\* > 0, and once compute_delta_stack has returned the knots of get_stack_delta
\* and get_stack_delta_weights are the observed bins with stack weight > 0;
\* until the first compute_mean_cont the two mean-continuum interpolants keep
\* the knots of the construction, the whole rest-frame grid, with weight 0
C17_KnotsOfRebuiltInterpolants ==
    pc # "raised" =>
        /\ DOMAIN acc.compute_mean_cont # {} =>
              /\ self.get_mean_cont.x =
                    BinsWithWeight(log_lambda_rest_frame_grid,
                                   acc.compute_mean_cont.mean_cont_weight)
              /\ self.get_mean_cont_weight.x =
                    BinsWithWeight(log_lambda_rest_frame_grid,
                                   acc.compute_mean_cont.mean_cont_weight)
              /\ \A i \in DOMAIN self.get_mean_cont_weight.y :
                    self.get_mean_cont_weight.y[i][1] > 0
        /\ DOMAIN acc.compute_mean_cont = {} =>
              /\ self.get_mean_cont.x = log_lambda_rest_frame_grid
              /\ self.get_mean_cont_weight.x = log_lambda_rest_frame_grid
              /\ self.get_mean_cont_weight.y = Zeros(NRest)
        /\ self.get_stack_delta # NoInterp =>
              /\ self.get_stack_delta.x =
                    BinsWithWeight(log_lambda_grid, acc.compute_delta_stack.stack_weight)
              /\ self.get_stack_delta_weights.x =
                    BinsWithWeight(log_lambda_grid, acc.compute_delta_stack.stack_weight)
              /\ \A i \in DOMAIN self.get_stack_delta_weights.y :
                    self.get_stack_delta_weights.y[i][1] > 0

\* C17 happens: the mean continuum and the stack have been rebuilt, each
\* leaving out a bin of its grid that no pixel fell in
C17_Witness ==
    /\ pc = "save_iteration_step"
    /\ calls.round.compute_mean_cont = 1
    /\ Len(self.get_mean_cont.x) < NRest
    /\ Len(self.get_stack_delta.x) < NObs
    /\ Len(self.get_stack_delta.x) > 0

\* the observed bins compute_delta_stack found with weight > 0
StackBins == {b \in 1..NObs : acc.compute_delta_stack.stack_weight[b][1] > 0}

\* the bin of StackBins nearest to the bin b, the lower one of two equally near
NearestStackBin(b) ==
    CHOOSE n \in StackBins :
        \A m \in StackBins :
            \/ Abs(n - b) < Abs(m - b)
            \/ Abs(n - b) = Abs(m - b) /\ n <= m

\* compute_delta_stack has returned in the current round
DeltaStackReturned ==
    /\ pc \in {"save_iteration_step", "populate_los_ids", "done"}
    /\ calls.round.compute_delta_stack = 1

\* C18 as stated: after compute_delta_stack, get_stack_delta and
\* get_stack_delta_weights return 0 at every observed bin whose accumulated
\* weight is zero
C18_EmptyBinsEvaluateToZero ==
    DeltaStackReturned =>
        \A b \in 1..NObs :
            acc.compute_delta_stack.stack_weight[b] = Num(0) =>
                /\ Call(self.get_stack_delta, log_lambda_grid[b]) = Num(0)
                /\ Call(self.get_stack_delta_weights, log_lambda_grid[b]) = Num(0)

\* C18 amended: after compute_delta_stack, at an observed bin whose
\* accumulated weight is zero get_stack_delta returns the stacked delta of the
\* nearest bin with weight > 0, and get_stack_delta_weights returns 0 when the
\* bin lies below the first or above the last bin with weight > 0 and the
\* weight of the nearest bin with weight > 0 otherwise
C18_EmptyBinsEvaluateToNearest ==
    DeltaStackReturned =>
        \A b \in 1..NObs :
            acc.compute_delta_stack.stack_weight[b] = Num(0) =>
                /\ Call(self.get_stack_delta, log_lambda_grid[b]) =
                      FDiv(acc.compute_delta_stack.stack_delta[NearestStackBin(b)],
                           acc.compute_delta_stack.stack_weight[NearestStackBin(b)])
                /\ Call(self.get_stack_delta_weights, log_lambda_grid[b]) =
                      IF \/ \A n \in StackBins : b < n
                         \/ \A n \in StackBins : b > n
                      THEN Num(0)
                      ELSE acc.compute_delta_stack.stack_weight[NearestStackBin(b)]

\* C18 happens: the stack has a bin of weight zero between two bins with
\* weight, where get_stack_delta and get_stack_delta_weights are not 0, and a
\* bin of weight zero above the last bin with weight
C18_Witness ==
    /\ DeltaStackReturned
    /\ \E b \in 1..NObs :
          /\ acc.compute_delta_stack.stack_weight[b] = Num(0)
          /\ \E n \in StackBins : n < b
          /\ \E n \in StackBins : n > b
          /\ Call(self.get_stack_delta, log_lambda_grid[b]) # Num(0)
          /\ Call(self.get_stack_delta_weights, log_lambda_grid[b]) # Num(0)
    /\ \E b \in 1..NObs :
          /\ acc.compute_delta_stack.stack_weight[b] = Num(0)
          /\ \A n \in StackBins : n < b

\* compute_var_stats has returned in the current round
VarStatsReturned ==
    /\ pc \in {"compute_delta_stack", "save_iteration_step"}
    /\ calls.round.compute_var_stats = 1

\* C19: in compute_var_stats, a bin whose fit succeeded gets Minuit's eta,
\* var_lss and fudge (the latter in units of FUDGE_REF) and valid_fit true, a
\* bin whose fit failed gets eta = 1, var_lss = 0.1, fudge = FUDGE_REF and
\* valid_fit false, whatever the other bins' fits gave, and the pixel count of
\* every bin is recorded; the rebuilt functions take these values at the bins
\* with pixels
C19_PerBinSuccessOrDefaults ==
    calls.round.compute_var_stats = 1 =>
        \A j \in 1..NumBinsVariance :
            LET minimizer == acc.compute_var_stats.minimizers[j]
                arrays == acc.compute_var_stats.arrays
            IN  /\ minimizer.valid =>
                      /\ arrays.eta[j] = minimizer.eta
                      /\ arrays.var_lss[j] = minimizer.var_lss
                      /\ arrays.fudge[j] = FMul(minimizer.fudge, FUDGE_REF)
                      /\ arrays.valid_fit[j] = Num(1)
                /\ ~minimizer.valid =>
                      /\ arrays.eta[j] = Num(1)
                      /\ arrays.var_lss[j] = Frac(1, 10)
                      /\ arrays.fudge[j] = FUDGE_REF
                      /\ arrays.valid_fit[j] = Num(0)
                /\ arrays.num_pixels[j] = Num(VarStatsNumPixels(forests, j, 1))
                /\ VarStatsReturned /\ arrays.num_pixels[j][1] > 0 =>
                      /\ Call(self.get_eta, log_lambda_var_func_grid[j]) = arrays.eta[j]
                      /\ Call(self.get_var_lss, log_lambda_var_func_grid[j]) =
                            arrays.var_lss[j]
                      /\ Call(self.get_fudge, log_lambda_var_func_grid[j]) =
                            arrays.fudge[j]
                      /\ Call(self.get_valid_fit, log_lambda_var_func_grid[j]) =
                            arrays.valid_fit[j]
                      /\ Call(self.get_num_pixels, log_lambda_var_func_grid[j]) =
                            arrays.num_pixels[j]

\* C19 happens: compute_var_stats has returned with pixels in every bin, the
\* fit of one bin failed and the fit of another succeeded
C19_Witness ==
    /\ VarStatsReturned
    /\ \A j \in 1..NumBinsVariance : acc.compute_var_stats.arrays.num_pixels[j][1] > 0
    /\ \E j \in 1..NumBinsVariance : acc.compute_var_stats.minimizers[j].valid
    /\ \E j \in 1..NumBinsVariance : ~acc.compute_var_stats.minimizers[j].valid

\* lo <= v <= hi on floats
InInterval(v, limit) ==
    /\ ~IsNaN(v)
    /\ FSub(v, limit[1])[1] >= 0
    /\ FSub(limit[2], v)[1] >= 0

\* C20 as stated: after compute_var_stats, at every bin of the rebuilt
\* functions eta lies in limit_eta, var_lss in limit_var_lss and fudge is >= 0,
\* whether the fit of the bin succeeded or failed
C20_RebuiltValuesWithinLimits ==
    VarStatsReturned =>
        \A i \in DOMAIN self.get_eta.y :
            /\ InInterval(self.get_eta.y[i], self.limit_eta)
            /\ InInterval(self.get_var_lss.y[i], self.limit_var_lss)
            /\ self.get_fudge.y[i][1] >= 0 /\ ~IsNaN(self.get_fudge.y[i])

\* C20 amended: after compute_var_stats, at every bin of the rebuilt functions
\* whose fit succeeded eta lies in limit_eta, var_lss in limit_var_lss and
\* fudge is >= 0; at a bin whose fit failed they are 1, 0.1 and FUDGE_REF,
\* whatever the intervals
C20_FittedValuesWithinLimits ==
    VarStatsReturned =>
        \A i \in DOMAIN self.get_eta.y :
            IF self.get_valid_fit.y[i] = Num(1)
            THEN /\ InInterval(self.get_eta.y[i], self.limit_eta)
                 /\ InInterval(self.get_var_lss.y[i], self.limit_var_lss)
                 /\ self.get_fudge.y[i][1] >= 0 /\ ~IsNaN(self.get_fudge.y[i])
            ELSE /\ self.get_eta.y[i] = Num(1)
                 /\ self.get_var_lss.y[i] = Frac(1, 10)
                 /\ self.get_fudge.y[i] = FUDGE_REF

\* C20 happens: with limit_eta = (1.1, 1.5) the rebuilt functions hold a bin
\* whose fit failed, with eta = 1 below the interval, and a bin whose fit
\* succeeded
C20_Witness ==
    /\ VarStatsReturned
    /\ self.limit_eta[1] = Frac(11, 10)
    /\ \E i \in DOMAIN self.get_eta.y :
          self.get_valid_fit.y[i] = Num(0) /\ self.get_eta.y[i] = Num(1)
    /\ \E i \in DOMAIN self.get_eta.y : self.get_valid_fit.y[i] = Num(1)

\* C21: after compute_var_stats, get_eta, get_var_lss, get_fudge,
\* get_num_pixels and get_valid_fit are nearest-neighbour interpolants whose
\* knots are the variance bins with pixels (a bin with pixels whose fit failed
\* is a knot with the fallback values and valid_fit false, a bin without
\* pixels is no knot), and below the first or above the last knot they return
\* that knot's value
C21_VarianceFunctionsOverBinsWithPixels ==
    VarStatsReturned =>
        /\ \A f \in {self.get_eta, self.get_var_lss, self.get_fudge, self.get_num_pixels,
                     self.get_valid_fit} :
              /\ f.kind = "nearest"
              /\ f.x = Masked(log_lambda_var_func_grid,
                              {j \in 1..NumBinsVariance :
                                  VarStatsNumPixels(forests, j, 1) > 0})
              /\ Len(f.y) = Len(f.x)
              /\ \A b \in 1..NObs :
                    /\ log_lambda_grid[b] < f.x[1] => Call(f, log_lambda_grid[b]) = f.y[1]
                    /\ log_lambda_grid[b] > f.x[Len(f.x)] =>
                          Call(f, log_lambda_grid[b]) = f.y[Len(f.y)]
        /\ \A i \in DOMAIN self.get_valid_fit.y :
              /\ self.get_num_pixels.y[i][1] > 0
              /\ self.get_valid_fit.y[i] = Num(0) =>
                    /\ self.get_eta.y[i] = Num(1)
                    /\ self.get_var_lss.y[i] = Frac(1, 10)
                    /\ self.get_fudge.y[i] = FUDGE_REF

\* C21 happens: compute_var_stats has returned with a bin without pixels below
\* a bin with pixels whose fit failed
C21_Witness ==
    /\ VarStatsReturned
    /\ Len(self.get_eta.x) < NumBinsVariance
    /\ self.get_eta.x[1] > log_lambda_var_func_grid[1]
    /\ self.get_valid_fit.y[1] = Num(0)
    /\ Call(self.get_eta, log_lambda_grid[1]) = Num(1)

\* C22: the slope stays at its initial value 0 iff the order is 0: with order
\* 0 every forest whose fit succeeded has the cached slope 0 and, at each
\* pixel, the continuum zero_point times the transmission-corrected mean
\* continuum its fit read; a slope other than 0 comes with another order
C22_SlopeFixedIffOrderZero ==
    \A k \in 1..NumForests :
        HasBeenFit(k) =>
            /\ last_fit[k].slope # Num(0) => self.order # 0
            /\ self.order = 0 /\ ~FitFailed(k) =>
                  /\ last_fit[k].slope = Num(0)
                  /\ last_fit[k].continuum_fit_parameters[FittedForest(k).los_id] =
                        <<last_fit[k].zero_point, Num(0)>>
                  /\ \A i \in DOMAIN FittedForest(k).continuum :
                        FittedForest(k).continuum[i] =
                            FMul(last_fit[k].zero_point,
                                 FMul(Call(last_fit[k].read[1],
                                           FittedForest(k).log_lambda[i]
                                           - Log10OnePlusZ(FittedForest(k))),
                                      FittedForest(k).transmission_correction[i]))

\* C22 happens: with order 0 a forest has been fitted with success from a mean
\* continuum that is not flat
C22_Witness ==
    /\ self.order = 0
    /\ \E k \in 1..NumForests :
          /\ HasBeenFit(k)
          /\ ~FitFailed(k)
          /\ last_fit[k].zero_point = Num(1)
          /\ \E i \in DOMAIN FittedForest(k).continuum :
                FittedForest(k).continuum[i] # FittedForest(k).continuum[1]

\* C23: with use_constant_weight the weights of the continuum fit are 1 at
\* every pixel of every forest, whatever the forest's ivar, the trial
\* continuum and the variance functions, also when use_ivar_as_weight is set
\* too; in that case the variance functions hold eta = 1, var_lss = 0 and
\* fudge = 0
C23_ConstantWeightsAreOne ==
    self.use_constant_weight =>
        /\ \A k \in 1..NumForests :
              /\ HasBeenFit(k) => last_fit[k].weights = Ones(Len(forests[k].flux))
              /\ \A minimizer \in FitOutcomes(self.order) :
                    get_continuum_weights(self, forests[k],
                                          TempContModel(self, forests[k], minimizer))
                        = Ones(Len(forests[k].flux))
        /\ self.use_ivar_as_weight =>
              /\ self.get_eta.y = Ones(NumBinsVariance)
              /\ self.get_var_lss.y = Zeros(NumBinsVariance)
              /\ self.get_fudge.y = Zeros(NumBinsVariance)

\* C23 happens: with both flags set a forest whose ivar is not 1 has been fitted
\* from a continuum that is not 1, with weights 1
C23_Witness ==
    /\ self.use_constant_weight
    /\ self.use_ivar_as_weight
    /\ \E k \in 1..NumForests :
          /\ HasBeenFit(k)
          /\ forests[k].ivar[1] # Num(1)
          /\ last_fit[k].temp_cont_model[1] # Num(1)
          /\ last_fit[k].weights = Ones(Len(forests[k].flux))

\* C24: the converged state is a fixed point of compute_mean_cont: when the
\* mean continuum the round began with has sample mean 1 and flux / continuum
\* is 1 at every pixel of every forest whose fit succeeded, the mean continuum
\* at every populated rest-frame bin is after the call what it was before,
\* also when some bin of the grid received no pixel
C24_ConvergedIsFixedPoint ==
    /\ MeanContReturned
    /\ FEq(MeanContSampleMean(StartOfRound), Num(1))
    /\ \A k \in 1..NumForests :
          ~MeanContSkips(forests[k]) =>
              FluxOverContinuum(forests[k]) = Ones(Len(forests[k].flux))
    => \A b \in Populated(acc.compute_mean_cont.mean_cont_weight) :
          Call(self.get_mean_cont, log_lambda_rest_frame_grid[b]) =
              Call(StartOfRound.get_mean_cont, log_lambda_rest_frame_grid[b])

\* C25: when compute_expected_flux returns, every Forest object of the list
\* the caller passed in carries the continuum and the failure reason its fit
\* of the final round computed, in serial and in parallel execution
C25_CallersForestsCarryFinalFit ==
    pc = "done" =>
        \A k \in 1..NumForests :
            /\ last_fit[k].iteration = self.num_iterations - 1
            /\ caller_forests[k].continuum =
                  (IF FitFailed(k) THEN None ELSE last_fit[k].temp_cont_model)
            /\ caller_forests[k].bad_continuum_reason = NoReason <=> ~FitFailed(k)

\* C26: a failure does not outlast its round: each call of compute_continuum
\* leaves the forest with a reason iff this fit failed, whatever reason the
\* forest carried before; once the fits of a round are over every forest has
\* been fitted in this round and the reductions skip a forest iff its fit of
\* this round failed; when the run is over a forest is in los_ids iff its fit
\* of the final round succeeded
C26_FailureIsNotSticky ==
    [][\A k \in 1..NumForests :
          /\ last_fit'[k] # last_fit[k] =>
                /\ last_fit'[k].iteration = iteration
                /\ FittedForest(k)'.bad_continuum_reason = NoReason <=> ~FitFailed(k)'
                /\ FittedForest(k)'.continuum # None <=> ~FitFailed(k)'
          /\ PastTheFits' =>
                /\ last_fit'[k].iteration = iteration'
                /\ MeanContSkips(forests'[k]) <=> FitFailed(k)'
                /\ DeltaStackSkips(forests'[k]) <=> FitFailed(k)'
          /\ pc' = "done" =>
                (forests'[k].los_id \in DOMAIN self'.los_ids <=> ~FitFailed(k)')]_vars

\* C26 happens: a serial run of two rounds is over; the last forest of the list
\* failed in round 0 (the parameters cached at the end of that round are NaN),
\* its fit of round 1 succeeded and it is in los_ids
C26_Witness ==
    /\ pc = "done"
    /\ self.num_processors = 1
    /\ self.num_iterations = 2
    /\ end_of_round[1].continuum_fit_parameters[forests[NumForests].los_id] = <<NaN, NaN>>
    /\ last_fit[NumForests].iteration = 1
    /\ ~FitFailed(NumForests)
    /\ forests[NumForests].los_id \in DOMAIN self.los_ids

\* C27: in a Dr16FixedEtaExpectedFlux with the numeric "eta value" v, eta is
\* never fitted and get_eta is v at every variance bin, in every state: at
\* construction, after every compute_var_stats whether the fit of a bin
\* succeeded or failed, and at the finalization
C27_EtaStaysAtItsValue ==
    /\ "eta" \notin self.fit_variance_functions
    /\ CallAll(self.get_eta, log_lambda_var_func_grid) =
          [j \in 1..NumBinsVariance |-> self.eta_value]

\* C28: a call of compute_continuum leaves the forest's flux, ivar, log_lambda,
\* z and transmission_correction as they were, and changes nothing of the
\* instance but continuum_fit_parameters: the mean continuum, the variance
\* functions and the stack are the same functions after the call
C28_FitChangesContinuumAndReasonOnly ==
    [][\A k \in 1..NumForests :
          last_fit'[k] # last_fit[k] =>
              /\ [FittedForest(k)' EXCEPT
                     !.continuum = forests[k].continuum,
                     !.bad_continuum_reason = forests[k].bad_continuum_reason]
                    = forests[k]
              /\ [self' EXCEPT !.continuum_fit_parameters = self.continuum_fit_parameters]
                    = self
              /\ ModelFunctions(self') = ModelFunctions(self)
              /\ StackFunctions(self') = StackFunctions(self)]_vars

\* C28 happens: a forest has been fitted with success in the second round, from
\* a mean continuum that is not the constructed one
C28_Witness ==
    \E k \in 1..NumForests :
        /\ last_fit[k].iteration = 1
        /\ ~FitFailed(k)
        /\ FittedForest(k).continuum = last_fit[k].temp_cont_model
        /\ last_fit[k].read[1] # Dr16ExpectedFlux(self).get_mean_cont
        /\ FittedForest(k).transmission_correction = Ones(Len(FittedForest(k).flux))

\* C29: with neither use_ivar_as_weight nor use_constant_weight the variance
\* functions start at eta = 1, var_lss = 0.2 and fudge = 0 at every variance
\* bin, and the continuum fits of round 0 read these values
C29_NormalModeStartingValues ==
    ~self.use_ivar_as_weight /\ ~self.use_constant_weight =>
        /\ iteration = 0 /\ calls.round.compute_var_stats = 0 =>
              /\ CallAll(self.get_eta, log_lambda_var_func_grid) = Ones(NumBinsVariance)
              /\ CallAll(self.get_var_lss, log_lambda_var_func_grid) =
                    [j \in 1..NumBinsVariance |-> Frac(2, 10)]
              /\ CallAll(self.get_fudge, log_lambda_var_func_grid) = Zeros(NumBinsVariance)
        /\ \A k \in 1..NumForests :
              last_fit[k].iteration = 0 =>
                  /\ CallAll(last_fit[k].read[3], log_lambda_var_func_grid) =
                        Ones(NumBinsVariance)
                  /\ CallAll(last_fit[k].read[4], log_lambda_var_func_grid) =
                        [j \in 1..NumBinsVariance |-> Frac(2, 10)]
                  /\ CallAll(last_fit[k].read[5], log_lambda_var_func_grid) =
                        Zeros(NumBinsVariance)

\* C30: compute_mean_cont_log and compute_mean_cont_lin complete without error
\* for every set of forests, also when a rest-frame bin has no accumulated
\* weight, and build get_mean_cont and get_mean_cont_weight with as many values
\* as knots, one per rest-frame bin with accumulated weight > 0
C30_TrueMeanContCompletes ==
    /\ pc # "ValueError"
    /\ pc = "populate_los_ids" =>
          \A f \in {self.get_mean_cont, self.get_mean_cont_weight} :
              /\ Len(f.x) = Len(f.y)
              /\ Len(f.x) = Cardinality(Populated(acc.compute_mean_cont.mean_cont_weight))
====
